---- MODULE Spec2Model ----
(***************************************************************************)
(* A model of the session core of scyllapy (src/src/scylla_cls.rs), of its *)
(* batch entry point (src/src/batches.rs), of its streaming cursor         *)
(* (src/src/query_results.rs), of its statements and request parameters    *)
(* (src/src/queries.rs, src/src/query.rs) and of its value codec           *)
(* (src/src/utils.rs).                                                     *)
(*                                                                         *)
(* A Session owns `scylla_session: Arc<tokio::sync::RwLock<Option<..>>>`.  *)
(* Every host call creates a future; the futures of several calls run     *)
(* interleaved, and each suspends only at an `.await`.  A step of the      *)
(* model is the code of one future between two of its suspension points.   *)
(*                                                                         *)
(* Ten specifications share the variables:                                 *)
(*   Spec        concurrent calls on one Session;                          *)
(*   FairSpec    Spec with the scheduling fairness of the tokio runtime;   *)
(*   SpecBatch   one host task calling startup / shutdown / batch with     *)
(*               every shape of batch input;                               *)
(*   SpecCursor  concurrent fetches on one StreamingCursor;                *)
(*   SpecParams  a statement, the statements derived from it by with_x,    *)
(*               and the driver request built from it on each path;        *)
(*   SpecCodec   one host value encoded by py_to_value, or one wire value  *)
(*               decoded by cql_to_py;                                     *)
(*   SpecResult  one ResultSet and one call of all / first / scalars /     *)
(*               scalar / len on it;                                       *)
(*   SpecInline  appends to one InlineBatch, by add_query and by a         *)
(*               builder's add_to_batch;                                   *)
(*   SpecShape   one host task configuring a StreamingCursor (as_cls,      *)
(*               scalars) and fetching from it, in any order;              *)
(*   SpecPaged   a paged execute and fetches from its cursor beside        *)
(*               startup and shutdown of the Session.                      *)
(***************************************************************************)
EXTENDS Integers, Sequences, FiniteSets, TLC

\* ------------------------------------------------------------------ bounds
\* Number of host tasks that may have a call in flight.
NProcs == 2
\* Total number of Session calls issued in one behaviour.
MaxCalls == 3
\* Largest number of statements in a batch, and of supplied bind-value sets.
MaxStmts == 2
\* Largest number of items in a cursor's row stream.
MaxRows == 2
\* Total number of fetches issued on the cursor in one behaviour.
MaxFetches == 4

Procs == 1..NProcs

\* ------------------------------------------------------------- vocabulary
\* The empty Option: `RwLock::new(None)`.  Live pool handles are 1, 2, ...
None == 0

ReadOps == {"execute", "batch", "prepare"}
KeyspaceOps == {"use_keyspace", "get_keyspace"}

VARIABLES
  scylla_session,  \* content of the RwLock: None or a pool handle
  guard,           \* the RwLock itself: readers, writers, FIFO wait queue
  username,        \* configuration: TRUE when Some
  password,        \* configuration: TRUE when Some
  pc,              \* per task: "idle", "wait", "locked", "driver"
  op,              \* per task: the operation of its current (or last) call
  mode,            \* per task: side of the guard it asked for, "r" or "w"
  session_ref,     \* per task: the handle `as_ref()` gave it
  result,          \* per task: outcome of its call, "none" while in flight
  gen,             \* number of pool handles built so far
  ncalls,          \* number of calls issued so far
  batch_in,        \* per task: the arguments of its batch call
  submitted,       \* the last batch handed to the driver
  rows,            \* cursor: the items the row stream yields, in order
  position,        \* cursor: number of items the stream has yielded
  streamer,        \* cursor: the Mutex around the stream
  fpc,             \* per task: "idle", "wait", "locked", "next"
  fetched,         \* per task: stream position its `next()` started from
  yielded,         \* cursor: what the finished fetches returned, in order
  nfetch,          \* number of fetches issued so far
  mapper,          \* cursor: the row transform attached, an Option
  scalars,         \* cursor: TRUE when scalar mode is set
  col_spec,        \* cursor: the column specs of the row stream
  captured,        \* per task: the `map_function` and `scalars` its fetch copied
  statement,       \* the statement object the host holds
  origin,          \* the with_x call that returned it: receiver, field, value
  request,         \* the driver request built last, with its path
  item,            \* encode: the host value bound to a parameter
  column_type,     \* encode: the parameter's declared type, an Option
  dto,             \* encode: what py_to_value returned for it
  buf,             \* encode: the payload bytes `serialize` wrote
  cql_type,        \* decode: the column's declared type
  cql_value,       \* decode: the wire value, an Option
  decoded,         \* decode: what cql_to_py returned
  query_result,    \* ResultSet: `inner`, the driver's QueryResult it wraps
  returned,        \* ResultSet: the method called last and what it returned
  inline_batch,    \* InlineBatch: its statements and its pre-bound value sets
  append_out       \* InlineBatch: the append called last and its outcome

sessionVars == <<scylla_session, guard, username, password, pc, op, mode,
                 session_ref, result, gen, ncalls>>
batchVars == <<batch_in, submitted>>
cursorVars == <<rows, position, streamer, fpc, fetched, yielded, nfetch,
                mapper, scalars, col_spec, captured>>
paramsVars == <<statement, origin, request>>
codecVars == <<item, column_type, dto, buf, cql_type, cql_value, decoded>>
resultVars == <<query_result, returned>>
inlineVars == <<inline_batch, append_out>>
pureVars == <<paramsVars, codecVars, resultVars, inlineVars>>
vars == <<sessionVars, batchVars, cursorVars, pureVars>>

\* ------------------------------------- tokio::sync::RwLock, tokio::sync::Mutex
Unlocked == [readers |-> {}, writers |-> {}, queue |-> <<>>]

\* A read guard is compatible with other read guards only.
CanRead(g) == g.writers = {}

\* Faulty variant: the exclusive side no longer waits for the readers.
CanWrite_IgnoresReaders(g) == g.writers = {}

\* Faulty variant: the exclusive side is granted whoever holds the lock.
CanWrite_Always(g) == TRUE

\* A write guard (and a Mutex guard) is exclusive.
CanWrite(g) == g.writers = {} /\ g.readers = {}

Grantable(g, m) == IF m = "r" THEN CanRead(g) ELSE CanWrite(g)

Grant(g, p, m) ==
  IF m = "r" THEN [g EXCEPT !.readers = @ \cup {p}]
             ELSE [g EXCEPT !.writers = @ \cup {p}]

\* `.read().await` / `.write().await` / `.lock().await`: granted at once when
\* nobody queues and the side is compatible, else the task joins the FIFO
\* queue.
Acquire(g, p, m) ==
  IF g.queue = <<>> /\ Grantable(g, m)
    THEN Grant(g, p, m)
    ELSE [g EXCEPT !.queue = Append(@, <<p, m>>)]

\* Dropping a guard.
Release(g, p) == [g EXCEPT !.readers = @ \ {p}, !.writers = @ \ {p}]

Holds(g, p) == p \in g.readers \cup g.writers

\* The head of the queue, when its side has become compatible.
NextInLine(g, p, m) ==
  /\ g.queue # <<>>
  /\ Head(g.queue) = <<p, m>>
  /\ Grantable(g, m)

\* ----------------------------------------------------------- Session core
\* Faulty variant: every operation takes the reader side.
GuardSide_AllShared(o) == "r"

\* The side of the guard an operation asks for first.
GuardSide(o) ==
  CASE o = "startup" -> "r"
    [] o = "shutdown" -> "w"
    [] o \in ReadOps -> "r"
    [] o \in KeyspaceOps -> "w"

\* Faulty variant: the Option is always seen as Some.
IsSome_Always(s) == TRUE

\* Faulty variant: the Option is never seen as Some.
IsSome_Never(s) == FALSE

\* `Option::is_some` / `as_ref().ok_or(..)` succeeding.
IsSome(s) == s # None

\* Faulty variant: a username without a password is let through.
CredentialsMatch_Any(u, w) == TRUE

\* `match (username, password)`: both or neither.
CredentialsMatch(u, w) == u = w

\* ------------------------------------------------------------------ batch
\* The arguments of Session.batch: the batch (its flavour and number of
\* statements), whether a bind-value list was passed, its number of sets,
\* and whether every set encodes.
BatchInputs ==
  { b \in [kind : {"Batch", "InlineBatch"}, nstmt : 0..MaxStmts,
           given : BOOLEAN, sets : 0..MaxStmts, encodes : BOOLEAN] :
      /\ ~b.given => b.sets = 0
      /\ b.sets = 0 => b.encodes }

\* An empty deferred-binding batch, called without a bind-value list.
PlainBatch ==
  [kind |-> "Batch", nstmt |-> 0, given |-> FALSE, sets |-> 0,
   encodes |-> TRUE]

\* The value sets an inline batch bound at append time, one per statement.
InlineValues(n) == [i \in 1..n |-> <<"inline", i>>]

\* The caller's bind-value sets, encoded in the order given.
PassedValues(m) == [i \in 1..m |-> <<"passed", i>>]

\* `parse_python_query_params(..)?` over the passed sets; an inline batch
\* parses nothing.
BatchBinds(b) == (b.kind = "Batch" /\ b.given) => b.encodes

\* The `(batch, batch_params)` pair Session.batch hands to the driver.
BatchParams(b) ==
  IF b.kind = "Batch"
    THEN (IF b.given THEN PassedValues(b.sets) ELSE <<>>)
    ELSE InlineValues(b.nstmt)

NothingSubmitted == [kind |-> "none", nstmt |-> 0, values |-> <<>>]

\* ----------------------------------------------------------------- errors
\* `impl From<ScyllaPyError> for pyo3::PyErr`: the host exception class of
\* an error kind; a PyError carries its own host exception.
PyErrOf(e, inner) ==
  CASE e = "PyError" -> inner
    [] e = "SSLError" -> "ScyllaPyBaseError"
    [] e \in {"QueryError", "DBError"} -> "ScyllaPyDBError"
    [] e \in {"SessionError", "ScyllaSessionError"} -> "ScyllaPySessionError"
    [] e \in {"BindingError", "ScyllaValueError", "DateParseError",
              "UuidParseError", "IpParseError"} -> "ScyllaPyBindingError"
    [] e \in {"RowsDowncastError", "ValueDowncastError", "UDTDowncastError",
              "NoReturnsError", "NoColumns"} -> "ScyllaPyMappingError"
    [] e = "QueryBuilderError" -> "ScyllaPyQueryBuiderError"

\* -------------------------------------------------------- StreamingCursor
\* The row streams a paged query may yield: rows and failed page fetches.
Streams ==
  UNION { [1..n -> {"row", "err"}] : n \in 0..MaxRows }

MutexUnlocked == [holder |-> {}, queue |-> <<>>]

\* Faulty variant: the Mutex is granted whoever holds it.
MutexFree_Always(m) == TRUE

MutexFree(m) == m.holder = {}

\* `streamer.lock().await`: granted at once when free and nobody queues,
\* else the task joins the FIFO queue.
MutexLock(m, p) ==
  IF m.queue = <<>> /\ MutexFree(m)
    THEN [m EXCEPT !.holder = @ \cup {p}]
    ELSE [m EXCEPT !.queue = Append(@, p)]

\* Dropping the MutexGuard.
MutexUnlock(m, p) == [m EXCEPT !.holder = @ \ {p}]

\* `row_iterator.next()` from stream position `at`: the index of the item
\* it yields, or 0 for None once the stream is exhausted.
StreamNext(rs, at) == IF at < Len(rs) THEN at + 1 ELSE 0

\* Faulty variant: the end of the stream is returned as one more row.
AnextOutcome_EndAsRow(rs, i) ==
  IF i = 0 THEN "Row"
  ELSE IF rs[i] = "row" THEN "Row" ELSE PyErrOf("QueryError", "none")

\* `match row`: what the fetch hands to the host for item i of the stream
\* (0 for None).
AnextOutcome(rs, i) ==
  IF i = 0 THEN PyErrOf("PyError", "StopAsyncIteration")
  ELSE IF rs[i] = "row" THEN "Row" ELSE PyErrOf("QueryError", "none")

\* ------------------------------------------------------ request parameters
\* Rust's Option: None is the empty sequence, Some(x) the sequence of x.
NoneOf == <<>>
Some(x) == <<x>>
OptionOf(S) == {NoneOf} \cup {Some(x) : x \in S}

\* The fields of ScyllaPyRequestParams, and the values the host passes.
ParamFields ==
  {"consistency", "serial_consistency", "request_timeout", "timestamp",
   "is_idempotent", "tracing", "profile"}

ParamValues ==
  [consistency |-> {"ONE", "LOCAL_QUORUM"},
   serial_consistency |-> {"LOCAL_SERIAL"},
   request_timeout |-> {5},
   timestamp |-> {7},
   is_idempotent |-> BOOLEAN,
   tracing |-> BOOLEAN,
   profile |-> {"profile"}]

\* `ScyllaPyRequestParams::default()`: every field None.
DefaultParams == [f \in ParamFields |-> NoneOf]

\* What `ScyllaPyRequestParams::from_dict` builds from keyword arguments.
RequestParams ==
  [consistency : OptionOf(ParamValues.consistency),
   serial_consistency : OptionOf(ParamValues.serial_consistency),
   request_timeout : OptionOf(ParamValues.request_timeout),
   timestamp : OptionOf(ParamValues.timestamp),
   is_idempotent : OptionOf(ParamValues.is_idempotent),
   tracing : OptionOf(ParamValues.tracing),
   profile : OptionOf(ParamValues.profile)]

\* The two statement classes: ScyllaPyQuery (queries.rs) keeps its
\* parameters in a ScyllaPyRequestParams, Query (query.rs) has no profile.
Statements ==
  { [cls |-> c, query |-> "q", params |-> rp] :
      c \in {"ScyllaPyQuery", "Query"}, rp \in RequestParams }
    \ { st \in [cls : {"Query"}, query : {"q"}, params : RequestParams] :
          st.params.profile # NoneOf }

\* `impl From<&ScyllaPyQuery> for ScyllaPyQuery`.
ScyllaPyQuery_from(value) ==
  [cls |-> value.cls, query |-> value.query, params |-> DefaultParams]

\* `impl From<&Query> for Query`.
Query_from(value) ==
  [cls |-> value.cls, query |-> value.query, params |-> value.params]

\* `Self::from(self)` of the statement's own class.
SelfFrom(value) ==
  IF value.cls = "ScyllaPyQuery" THEN ScyllaPyQuery_from(value)
                                 ELSE Query_from(value)

\* `with_<field>(&self, v)`: copy, then assign the one field.
With(self, field, v) ==
  [SelfFrom(self) EXCEPT !.params[field] = v]

\* `impl From<ScyllaPyConsistency> for Consistency` and
\* `impl From<ScyllaPySerialConsistency> for SerialConsistency`.
ConsistencyInto(c) ==
  CASE c = "ANY" -> "Any"
    [] c = "ONE" -> "One"
    [] c = "TWO" -> "Two"
    [] c = "THREE" -> "Three"
    [] c = "QUORUM" -> "Quorum"
    [] c = "ALL" -> "All"
    [] c = "LOCAL_QUORUM" -> "LocalQuorum"
    [] c = "EACH_QUORUM" -> "EachQuorum"
    [] c = "LOCAL_ONE" -> "LocalOne"
    [] c = "SERIAL" -> "Serial"
    [] c = "LOCAL_SERIAL" -> "LocalSerial"

\* `Duration::from_secs`: whole seconds and nanoseconds.
DurationFromSecs(n) == [secs |-> n, nanos |-> 0]

\* `ExecutionProfileHandle::from(&profile)`.
ProfileHandle(pr) == [handle_of |-> pr]

\* The configuration of a driver request.  A field no setter was called on
\* is NoneOf (the driver's default applies); a setter called with x leaves
\* Some(x).
DriverFields ==
  {"consistency", "is_idempotent", "tracing", "execution_profile_handle",
   "timestamp", "request_timeout", "serial_consistency"}

\* `Query::new(text)` / `Batch::new(batch_type)`.
NewRequest == [f \in DriverFields |-> NoneOf]

\* `ScyllaPyRequestParams::apply_to_query`.
apply_to_query(self, query) ==
  [query EXCEPT
     !.consistency = IF self.consistency # NoneOf
                       THEN Some(ConsistencyInto(self.consistency[1])) ELSE @,
     !.is_idempotent = IF self.is_idempotent # NoneOf
                         THEN Some(self.is_idempotent[1]) ELSE @,
     !.tracing = IF self.tracing # NoneOf THEN Some(self.tracing[1]) ELSE @,
     !.execution_profile_handle = Some((IF self.profile = NoneOf THEN NoneOf
           ELSE Some(ProfileHandle(self.profile[1])))),
     !.timestamp = Some(self.timestamp),
     !.request_timeout = Some((IF self.request_timeout = NoneOf THEN NoneOf
           ELSE Some(DurationFromSecs(self.request_timeout[1])))),
     !.serial_consistency =
        Some((IF self.serial_consistency = NoneOf THEN NoneOf
           ELSE Some(ConsistencyInto(self.serial_consistency[1]))))]

\* `ScyllaPyRequestParams::apply_to_batch`.
apply_to_batch(self, batch) ==
  [batch EXCEPT
     !.consistency = IF self.consistency # NoneOf
                       THEN Some(ConsistencyInto(self.consistency[1])) ELSE @,
     !.is_idempotent = IF self.is_idempotent # NoneOf
                         THEN Some(self.is_idempotent[1]) ELSE @,
     !.tracing = IF self.tracing # NoneOf THEN Some(self.tracing[1]) ELSE @,
     !.timestamp = Some(self.timestamp),
     !.serial_consistency =
        Some((IF self.serial_consistency = NoneOf THEN NoneOf
           ELSE Some(ConsistencyInto(self.serial_consistency[1]))))]

\* `impl From<Query> for ScyllaQuery` (query.rs).
ScyllaQuery_from(value) ==
  [NewRequest EXCEPT
     !.consistency = IF value.consistency # NoneOf
                       THEN Some(ConsistencyInto(value.consistency[1])) ELSE @,
     !.is_idempotent = IF value.is_idempotent # NoneOf
                         THEN Some(value.is_idempotent[1]) ELSE @,
     !.tracing = IF value.tracing # NoneOf THEN Some(value.tracing[1]) ELSE @,
     !.timestamp = Some(value.timestamp),
     !.request_timeout = Some((IF value.request_timeout = NoneOf THEN NoneOf
           ELSE Some(DurationFromSecs(value.request_timeout[1])))),
     !.serial_consistency =
        Some((IF value.serial_consistency = NoneOf THEN NoneOf
           ELSE Some(ConsistencyInto(value.serial_consistency[1]))))]

\* `Query::from(query)` in Scylla::execute, for either statement class.
QueryFrom(value) ==
  IF value.cls = "ScyllaPyQuery"
    THEN apply_to_query(value.params, NewRequest)
    ELSE ScyllaQuery_from(value.params)

\* `impl From<ScyllaPyBatch> for Batch`.
BatchFrom(request_params) == apply_to_batch(request_params, NewRequest)

\* No statement is held, none was derived and no request was built.
NoStatement == [cls |-> "none"]
NoOrigin == [field |-> "none"]
NoRequest == [path |-> "none"]

ParamsIdle ==
  /\ statement = NoStatement
  /\ origin = NoOrigin
  /\ request = NoRequest

\* ------------------------------------------------------------- value codec
\* Largest number of elements of a collection, slots of a tuple and fields
\* of a user-defined type.
MaxLen == 2

\* The sequences over S of at most n elements.
SeqsUpTo(S, n) == UNION {[1..k -> S] : k \in 0..n}

\* `scylla::frame::response::result::ColumnType`, as far as the codec
\* distinguishes its kinds.
Native(k) == [kind |-> k]
Collection(k, t) == [kind |-> k, elem |-> t]

\* Host values (`&PyAny`), by their Python class.
PyNone == [py |-> "NoneType"]
PyInt(n) == [py |-> "int", v |-> n]
PyBool(x) == [py |-> "bool", b |-> x]
PyStr(x) == [py |-> "str", s |-> x]
PyColl(cls, xs) == [py |-> cls, items |-> xs]

\* `item.is_instance_of::<T>()`: a Python bool is also an instance of int.
IsInstanceOf(x, cls) == x.py = cls \/ (cls = "int" /\ x.py = "bool")

\* `item.extract::<iN>()?`: the value when it fits N bits, else the host's
\* OverflowError.  Every modelled host integer fits 64 bits.
Extract(variant, n) ==
  LET fits == CASE variant = "TinyInt" -> 0 - 128 <= n /\ n <= 127
                [] variant = "SmallInt" -> 0 - 32768 <= n /\ n <= 32767
                [] variant = "Int" -> (0 - 2147483647) - 1 <= n /\ n <= 2147483647
                [] OTHER -> TRUE
  IN IF fits THEN [tag |-> variant, v |-> n]
             ELSE [tag |-> "Err", err |-> "PyError", inner |-> "OverflowError"]

\* Faulty variant: a counter column is bound like a bigint column.
IntVariant_CounterAsBigInt(ct) ==
  IF ct = NoneOf THEN "Int"
  ELSE CASE ct[1].kind = "TinyInt" -> "TinyInt"
         [] ct[1].kind = "SmallInt" -> "SmallInt"
         [] ct[1].kind \in {"BigInt", "Counter"} -> "BigInt"
         [] OTHER -> "Int"

\* `match column_type` of the PyInt branch of py_to_value.
IntVariant(ct) ==
  IF ct = NoneOf THEN "Int"
  ELSE CASE ct[1].kind = "TinyInt" -> "TinyInt"
         [] ct[1].kind = "SmallInt" -> "SmallInt"
         [] ct[1].kind = "BigInt" -> "BigInt"
         [] ct[1].kind = "Counter" -> "Counter"
         [] OTHER -> "Int"

\* The bytes of n in two's complement, most significant first, for the
\* 32-bit values the model draws.
BigEndian(n, width) ==
  [i \in 1..width |->
     IF width - i < 4 THEN (n \div (256 ^ (width - i))) % 256
     ELSE IF n < 0 THEN 255 ELSE 0]

\* `impl Value for ScyllaPyCQLDTO`: the payload of the integer and boolean
\* variants is that of their Rust type (i8, i16, i32, i64, i64, bool); the
\* bytes of a Udt are appended as py_to_value built them.
serialize(d) ==
  CASE d.tag = "TinyInt" -> BigEndian(d.v, 1)
    [] d.tag = "SmallInt" -> BigEndian(d.v, 2)
    [] d.tag = "Int" -> BigEndian(d.v, 4)
    [] d.tag = "BigInt" -> BigEndian(d.v, 8)
    [] d.tag = "Counter" -> BigEndian(d.v, 8)
    [] d.tag = "Bool" -> <<IF d.b THEN 1 ELSE 0>>
    [] d.tag = "Udt" -> d.bytes
    [] OTHER -> <<>>

\* A buffer is a sequence of bytes 0..255 and of Blob items; a Blob stands
\* for the BlobSize content bytes of a large host `bytes` value.
Blob == 256
BlobSize == 2 ^ 30

\* `i32::MAX`, the largest value `buf.len().try_into()` accepts.
I32Max == 2147483647

BlobsIn(b) == Cardinality({k \in 1..Len(b) : b[k] = Blob})

\* `buf.len()`, for a buffer whose length fits 32 bits.
ByteCount(b) == (Len(b) - BlobsIn(b)) + BlobsIn(b) * BlobSize

\* Whether `buf.len().try_into::<i32>()` succeeds.
FitsI32(b) ==
  /\ BlobsIn(b) <= I32Max \div BlobSize
  /\ Len(b) - BlobsIn(b) <= I32Max - BlobsIn(b) * BlobSize

\* What `value.serialize(buf)` appends for a bound value: the 4-byte length
\* of the payload and the payload; length -1 and no payload for Null, -2
\* for Unset; the bytes of a Udt, which start with their own length.
Cell(d) ==
  CASE d.tag = "Null" -> BigEndian(0 - 1, 4)
    [] d.tag = "Unset" -> BigEndian(0 - 2, 4)
    [] d.tag = "Udt" -> d.bytes
    [] d.tag = "Bytes" -> BigEndian(ByteCount(d.bytes), 4) \o d.bytes
    [] OTHER -> BigEndian(Len(serialize(d)), 4) \o serialize(d)

\* The concatenation of the sequences of ss, in order.
RECURSIVE Flatten(_)
Flatten(ss) == IF ss = <<>> THEN <<>> ELSE Head(ss) \o Flatten(Tail(ss))

\* Faulty variant: the length header counts its own four bytes.
HeaderValue_CountsItself(buf_len) == buf_len

\* `buf_len - 4`: the header does not count itself.
HeaderValue(buf_len) == buf_len - 4

\* The end of the __dump_udt__ branch: `buf` starts with four zero bytes;
\* its length is cast to i32 and written over them.
UdtOf(b) ==
  IF ~FitsI32(b) THEN [tag |-> "Err", err |-> "BindingError", inner |-> "none"]
  ELSE [tag |-> "Udt",
        bytes |-> BigEndian(HeaderValue(ByteCount(b)), 4) \o SubSeq(b, 5, Len(b))]

\* py_to_value, in the order of its branches.
RECURSIVE py_to_value(_, _)
py_to_value(x, ct) ==
  IF IsInstanceOf(x, "NoneType") THEN [tag |-> "Null"]
  ELSE IF IsInstanceOf(x, "str") THEN [tag |-> "String", s |-> x.s]
  ELSE IF IsInstanceOf(x, "Unset") THEN [tag |-> "Unset"]
  ELSE IF IsInstanceOf(x, "bool") THEN [tag |-> "Bool", b |-> x.b]
  ELSE IF IsInstanceOf(x, "int") THEN Extract(IntVariant(ct), x.v)
  ELSE IF x.py \in {"SmallInt", "TinyInt", "BigInt", "Counter"}
    THEN [tag |-> x.py, v |-> x.v]
  ELSE IF IsInstanceOf(x, "bytes") THEN [tag |-> "Bytes", bytes |-> x.bytes]
  ELSE IF x.py = "udt"
    THEN IF x.dumped.py # "list"
           THEN [tag |-> "Err", err |-> "BindingError", inner |-> "none"]
           ELSE LET vals == [i \in 1..Len(x.dumped.items) |->
                               py_to_value(x.dumped.items[i], NoneOf)]
                    bad == {i \in 1..Len(vals) : vals[i].tag = "Err"}
                IN IF bad # {}
                     THEN vals[CHOOSE i \in bad : \A j \in bad : i <= j]
                     ELSE UdtOf(<<0, 0, 0, 0>> \o
                                Flatten([i \in 1..Len(vals) |-> Cell(vals[i])]))
  ELSE IF x.py = "relativedelta"
    THEN [tag |-> "Duration", months |-> x.months, days |-> x.days,
          nanoseconds |-> x.microseconds * 1000 + x.seconds * 1000000]
  ELSE IF x.py \in {"list", "tuple", "set"}
    THEN LET items == [i \in 1..Len(x.items) |-> py_to_value(x.items[i], ct)]
             bad == {i \in 1..Len(items) : items[i].tag = "Err"}
         IN IF bad = {} THEN [tag |-> "List", items |-> items]
            ELSE items[CHOOSE i \in bad : \A j \in bad : i <= j]
  ELSE [tag |-> "Err", err |-> "BindingError", inner |-> "none"]

\* Host integers at and around the limits of the narrow widths.
HostInts == {0 - 32769, 0 - 129, 0 - 128, 0, 1, 127, 128, 32767, 32768}

\* The seconds and microseconds fields a relativedelta normalises itself to.
HostDeltas ==
  [py : {"relativedelta"}, months : {0, 1}, days : {0, 2},
   seconds : {0, 1}, microseconds : {0, 1, 999999}]

HostScalars ==
  {PyNone, [py |-> "Unset"], PyStr("a"), [py |-> "bytearray"]}
    \cup {PyBool(x) : x \in BOOLEAN}
    \cup {PyInt(n) : n \in HostInts}
    \cup {[py |-> w, v |-> 1] : w \in {"SmallInt", "TinyInt", "BigInt", "Counter"}}
    \cup HostDeltas

\* Lists, tuples and sets of scalars, and lists of lists.
HostCollections ==
  LET elems == {PyInt(1), PyInt(128), PyBool(TRUE), PyStr("a")}
      flat == {PyColl(c, xs) : c \in {"list", "tuple", "set"},
                               xs \in SeqsUpTo(elems, MaxLen)}
      inner == {PyColl("list", xs) : xs \in SeqsUpTo({PyInt(1), PyInt(128)}, MaxLen)}
  IN flat \cup {PyColl("list", xs) : xs \in SeqsUpTo(inner, MaxLen)}

\* A host `bytes` value of BlobSize bytes, and host objects with a
\* __dump_udt__ method (class "udt") by what the method returns: a list of
\* field values, nested objects included, or something that is no list.
BigBytes == [py |-> "bytes", bytes |-> <<Blob>>]

HostUdts ==
  LET plain == {PyInt(1), PyBool(TRUE), PyNone, [py |-> "Unset"], BigBytes,
                [py |-> "bytes", bytes |-> <<7>>], [py |-> "bytearray"]}
      nested == {[py |-> "udt", dumped |-> PyColl("list", fs)] :
                   fs \in SeqsUpTo({PyInt(1), BigBytes}, MaxLen)}
  IN {[py |-> "udt", dumped |-> PyColl("list", fs)] :
        fs \in SeqsUpTo(plain \cup nested, MaxLen)}
       \cup {[py |-> "udt", dumped |-> PyColl("tuple", <<>>)]}

\* The declared types a prepared statement's column specs may carry.
DeclaredTypes ==
  LET ints == {Native(k) : k \in {"TinyInt", "SmallInt", "Int", "BigInt", "Counter"}}
      lists == {Collection(c, t) : c \in {"List", "Set"}, t \in ints}
  IN {NoneOf} \cup {Some(t) : t \in ints \cup lists}
       \cup {Some(Native(k)) : k \in {"Boolean", "Text", "Duration"}}
       \cup {Some(Collection("List", Collection("List", Native("BigInt"))))}

\* `ColumnType::Tuple`, `ColumnType::Map`, `ColumnType::UserDefinedType`
\* (its field_types a sequence of <<name, type>>) and `ColumnType::Custom`.
TupleType(ts) == [kind |-> "Tuple", types |-> ts]
MapType(k, v) == [kind |-> "Map", key |-> k, val |-> v]
UdtType(ks, n, fts) ==
  [kind |-> "UserDefinedType", keyspace |-> ks, type_name |-> n,
   field_types |-> fts]
CustomType == [kind |-> "Custom", name |-> "org.example.Type"]

\* `ScyllaPyError::ValueDowncastError(col_name, expected)`.
ValueDowncastError(col_name, expected) ==
  [py |-> "Err", err |-> "ValueDowncastError", col |-> col_name,
   expected |-> expected]

\* `ScyllaPyError::UDTDowncastError(format!("{keyspace}.{type_name}"),
\* col_name, format!("UDT field {key} is not defined in schema"))`.
UDTDowncastError(t, col_name, key) ==
  [py |-> "Err", err |-> "UDTDowncastError",
   udt |-> <<t.keyspace, ".", t.type_name>>, col |-> col_name,
   message |-> <<"UDT field ", key, " is not defined in schema">>]

\* Faulty variant: an item that fails to decode is replaced by None.
Collect_BestEffort(rs) ==
  [ok |-> TRUE,
   items |-> [i \in 1..Len(rs) |-> IF rs[i].py = "Err" THEN PyNone ELSE rs[i]]]

\* `.collect::<Result<Vec<_>, _>>()?`: the first error, else all the items.
Collect(rs) ==
  LET bad == {i \in 1..Len(rs) : rs[i].py = "Err"}
  IN IF bad = {} THEN [ok |-> TRUE, items |-> rs]
     ELSE [ok |-> FALSE, items |-> <<rs[CHOOSE i \in bad : \A j \in bad : i <= j]>>]

\* Faulty variant: a field the schema does not declare is skipped.
FieldType_SkipsUnknown(fts, key) ==
  LET at == {i \in 1..Len(fts) : fts[i][1] = key}
  IN IF at = {} THEN Some(CustomType)
     ELSE Some(fts[CHOOSE i \in at : \A j \in at : j <= i][2])

\* `fields.get(key)` on the map built from field_types: a later entry of
\* the same name replaces an earlier one.
FieldType(fts, key) ==
  LET at == {i \in 1..Len(fts) : fts[i][1] = key}
  IN IF at = {} THEN NoneOf
     ELSE Some(fts[CHOOSE i \in at : \A j \in at : j <= i][2])

\* Rust's integer `/`: the quotient truncated towards zero.
TruncDiv(a, b) == IF a >= 0 THEN a \div b ELSE 0 - ((0 - a) \div b)

\* Faulty variant: an absent value is decoded by the branch of its type.
Absent_Never(v) == FALSE

\* `let Some(unwrapped_value) = cql_value else { return Ok(py.None()) }`.
Absent(v) == v = NoneOf

\* cql_to_py, for the column types the model draws.
RECURSIVE cql_to_py(_, _, _)
cql_to_py(col_name, t, v) ==
  IF Absent(v) THEN PyNone
  ELSE LET u == IF v = NoneOf THEN [kind |-> "none"] ELSE v[1] IN
    CASE t.kind \in {"Int", "BigInt", "SmallInt", "TinyInt", "Counter"} ->
           IF u.kind = t.kind THEN PyInt(u.v)
           ELSE ValueDowncastError(col_name, t.kind)
      [] t.kind = "Text" ->
           IF u.kind = "Text" THEN PyStr(u.s)
           ELSE ValueDowncastError(col_name, "Text")
      [] t.kind = "Boolean" ->
           IF u.kind = "Boolean" THEN PyBool(u.b)
           ELSE ValueDowncastError(col_name, "Boolean")
      [] t.kind = "Duration" ->
           IF u.kind = "Duration"
             THEN [py |-> "relativedelta", months |-> u.months,
                   days |-> u.days, seconds |-> 0,
                   microseconds |-> TruncDiv(u.nanoseconds, 1000)]
             ELSE ValueDowncastError(col_name, "Duration")
      [] t.kind \in {"List", "Set"} ->
           IF u.kind = t.kind
             THEN LET got == Collect([i \in 1..Len(u.items) |->
                                cql_to_py(col_name, t.elem, Some(u.items[i]))])
                  IN IF got.ok
                       THEN PyColl(IF t.kind = "List" THEN "list" ELSE "set",
                                   got.items)
                       ELSE got.items[1]
             ELSE ValueDowncastError(col_name, t.kind)
      [] t.kind = "Map" ->
           IF u.kind = "Map"
             THEN LET keys == Collect([i \in 1..Len(u.pairs) |->
                                 cql_to_py(col_name, t.key, Some(u.pairs[i][1]))])
                      vals == Collect([i \in 1..Len(u.pairs) |->
                                 cql_to_py(col_name, t.val, Some(u.pairs[i][2]))])
                      both == Collect([i \in 1..Len(u.pairs) |->
                                 LET k == cql_to_py(col_name, t.key, Some(u.pairs[i][1]))
                                 IN IF k.py = "Err" THEN k
                                    ELSE cql_to_py(col_name, t.val, Some(u.pairs[i][2]))])
                  IN IF both.ok
                       THEN [py |-> "dict",
                             entries |-> [i \in 1..Len(u.pairs) |->
                                            <<keys.items[i], vals.items[i]>>]]
                       ELSE both.items[1]
             ELSE ValueDowncastError(col_name, "Map")
      [] t.kind = "Tuple" ->
           IF u.kind = "Tuple"
             THEN LET n == IF Len(t.types) <= Len(u.items)
                             THEN Len(t.types) ELSE Len(u.items)
                      got == Collect([i \in 1..n |->
                                cql_to_py(col_name, t.types[i], u.items[i])])
                  IN IF got.ok THEN PyColl("tuple", got.items)
                     ELSE got.items[1]
             ELSE ValueDowncastError(col_name, "Tuple")
      [] t.kind = "UserDefinedType" ->
           IF u.kind = "UserDefinedType"
             THEN LET got == Collect([i \in 1..Len(u.fields) |->
                                LET ft == FieldType(t.field_types, u.fields[i][1])
                                IN IF ft = NoneOf
                                     THEN UDTDowncastError(t, col_name, u.fields[i][1])
                                     ELSE cql_to_py(col_name, ft[1], u.fields[i][2])])
                  IN IF got.ok
                       THEN [py |-> "dict",
                             entries |-> [i \in 1..Len(u.fields) |->
                                            <<PyStr(u.fields[i][1]), got.items[i]>>]]
                       ELSE got.items[1]
             ELSE ValueDowncastError(col_name, "UDT")
      [] t.kind = "Custom" -> ValueDowncastError(col_name, "Unknown")

\* Wire values (`CqlValue`) and the column types they are decoded against:
\* scalars of matching and of other kinds, absent values, collections,
\* maps, tuples and user-defined types whose slots and fields may be
\* absent, mistyped, surplus or undeclared, and lists of tuples.
WireInt == [kind |-> "Int", v |-> 1]
WireText == [kind |-> "Text", s |-> "a"]

DecodeInputs ==
  LET atoms == {WireInt, WireText, [kind |-> "BigInt", v |-> 5],
                [kind |-> "Boolean", b |-> TRUE],
                [kind |-> "Duration", months |-> 1, days |-> 2,
                 nanoseconds |-> 1500]}
      types == {Native(k) : k \in {"Int", "BigInt", "Text", "Boolean", "Duration"}}
                 \cup {CustomType}
      few == {Native("Int"), Native("Text"), CustomType}
      slots == OptionOf({WireInt, WireText})
      tuples == {[kind |-> "Tuple", items |-> xs] : xs \in SeqsUpTo(slots, MaxLen)}
      declared == {<<"a", Native("Int")>>, <<"a", CustomType>>,
                   <<"b", Native("Text")>>}
      fields == {<<"a", Some(WireInt)>>, <<"a", Some(WireText)>>,
                 <<"a", NoneOf>>, <<"b", Some(WireText)>>, <<"z", Some(WireInt)>>}
      udts == {UdtType("ks", "t", fts) : fts \in SeqsUpTo(declared, MaxLen)}
      compound == {Collection("List", Native("Int")), MapType(Native("Int"), CustomType),
                   TupleType(<<CustomType>>), UdtType("ks", "t", <<>>)}
  IN {<<t, v>> : t \in types, v \in OptionOf(atoms)}
     \cup {<<Collection(c, t), Some([kind |-> c, items |-> xs])>> :
             c \in {"List", "Set"}, t \in few,
             xs \in SeqsUpTo({WireInt, WireText}, MaxLen)}
     \cup {<<MapType(k, w), Some([kind |-> "Map", pairs |-> ps])>> :
             k \in few, w \in few,
             ps \in SeqsUpTo({WireInt, WireText} \X {WireInt, WireText}, MaxLen)}
     \cup {<<TupleType(ts), Some(x)>> : ts \in SeqsUpTo(few, MaxLen), x \in tuples}
     \cup {<<t, Some([kind |-> "UserDefinedType", fields |-> fs])>> :
             t \in udts, fs \in SeqsUpTo(fields, MaxLen)}
     \cup {<<Collection("List", TupleType(ts)),
             Some([kind |-> "List", items |-> <<x>>])>> :
             ts \in SeqsUpTo({Native("Int"), CustomType}, MaxLen), x \in tuples}
     \cup {<<t, v>> : t \in compound, v \in {NoneOf, Some(WireInt)}}

NotRun == [tag |-> "NotRun"]
NoItem == [py |-> "none"]

CodecIdle ==
  /\ item = NoItem
  /\ column_type = NoneOf
  /\ dto = NotRun
  /\ buf = <<>>
  /\ cql_type = Native("none")
  /\ cql_value = NoneOf
  /\ decoded = NoItem

\* ---------------------------------------------------------------- ResultSet
\* `ColumnSpec`: the name and the declared type of a result column.
ColumnSpec(n, t) == [name |-> n, typ |-> t]

\* The column lists a row set may carry.
ResultColumns ==
  {<<>>,
   <<ColumnSpec("a", Native("Int"))>>,
   <<ColumnSpec("a", Native("Int")), ColumnSpec("b", Native("Text"))>>}

\* The rows of a row set with column list cs: one cell per column, present
\* or absent; a Text value under an Int column is schema drift.
RowsOf(cs) ==
  {r \in [1..Len(cs) -> OptionOf({WireInt, WireText})] :
     \A i \in 1..Len(cs) :
       cs[i].typ.kind = "Text" => r[i] # Some(WireInt)}

\* `scylla::QueryResult`: `rows` is None for a statement that returns no
\* row set, else the rows; `col_specs` is the column list.
QueryResults ==
  {[rows |-> NoneOf, col_specs |-> <<>>]}
    \cup UNION {{[rows |-> Some(rs), col_specs |-> cs] :
                   rs \in SeqsUpTo(RowsOf(cs), MaxRows)} : cs \in ResultColumns}

\* The body of the row loop of get_rows: every column decoded by cql_to_py
\* under its spec, `?` returning the first error.
DumpRow(specs, row) ==
  LET got == Collect([i \in 1..Len(row) |->
                        cql_to_py(specs[i].name, specs[i].typ, row[i])])
  IN IF got.ok
       THEN [py |-> "dict",
             entries |-> [i \in 1..Len(row) |->
                            <<PyStr(specs[i].name), got.items[i]>>]]
       ELSE got.items[1]

\* The number of rows the loop of get_rows visits among k: the row is
\* pushed, then `if row_index >= limit { break }`.
RowsVisited(k, limit) ==
  IF limit = NoneOf THEN k
  ELSE IF k <= limit[1] + 1 THEN k ELSE limit[1] + 1

\* What the row loop leaves: Ok(Some(dumped_rows)), or the first decode
\* error, with the number of rows whose decoding was started.
Dumped(dumped) ==
  LET bad == {i \in 1..Len(dumped) : dumped[i].py = "Err"}
      stop == CHOOSE i \in bad : \A j \in bad : i <= j
  IN IF bad = {}
       THEN [ok |-> TRUE, rows |-> Some(dumped), decoded |-> Len(dumped)]
       ELSE [ok |-> FALSE, rows |-> Some(<<dumped[stop]>>), decoded |-> stop]

\* ScyllaPyQueryResult::get_rows: Ok(None) without a row set, else the
\* visited rows decoded in order.
get_rows(self, limit) ==
  IF self.rows = NoneOf THEN [ok |-> TRUE, rows |-> NoneOf, decoded |-> 0]
  ELSE Dumped([i \in 1..RowsVisited(Len(self.rows[1]), limit) |->
                 DumpRow(self.col_specs, self.rows[1][i])])

\* `as_class.call(py, (), Some(row))`: the host object built from the row's
\* columns as keyword arguments.
Call(as_class, row) == [py |-> "object", cls |-> as_class, kwargs |-> row]

\* map_rows: the transform called on every row of the list.
map_rows(rs, as_class) == [i \in 1..Len(rs) |-> Call(as_class, rs[i])]

\* What a ResultSet method did: its outcome, the number of rows it decoded
\* and the number of calls of the row-shape transform.
Did(out, decoded_rows, calls) ==
  [out |-> out, decoded |-> decoded_rows, mapped |-> calls]

Raise(kind) == [py |-> "Err", err |-> kind]

\* `let Some(rows) = self.get_rows(..)? else { return Err(NoReturnsError) }`:
\* the outcome when the method ends there.
NoRows(got) ==
  IF ~got.ok THEN Did(got.rows[1][1], got.decoded, 0)
             ELSE Did(Raise("NoReturnsError"), 0, 0)

\* ScyllaPyQueryResult::all, from what get_rows(py, None) returned.
all_rows(got, as_class) ==
  IF ~got.ok \/ got.rows = NoneOf THEN NoRows(got)
  ELSE IF as_class # NoneOf
    THEN Did(PyColl("list", map_rows(got.rows[1], as_class[1])),
             got.decoded, Len(got.rows[1]))
  ELSE Did(PyColl("list", got.rows[1]), got.decoded, 0)

\* ScyllaPyQueryResult::first, from what get_rows(py, Some(1)) returned.
first_row(got, as_class) ==
  IF ~got.ok \/ got.rows = NoneOf THEN NoRows(got)
  ELSE IF got.rows[1] = <<>> THEN Did(PyNone, 0, 0)
  ELSE IF as_class # NoneOf
    THEN Did(map_rows(got.rows[1], as_class[1])[1],
             got.decoded, Len(got.rows[1]))
  ELSE Did(got.rows[1][1], got.decoded, 0)

\* ScyllaPyQueryResult::scalars, from what get_rows(py, None) returned.
scalars_rows(got, col_specs) ==
  IF ~got.ok \/ got.rows = NoneOf THEN NoRows(got)
  ELSE IF got.rows[1] = <<>> THEN Did(PyColl("list", <<>>), 0, 0)
  ELSE IF col_specs = <<>> THEN Did(Raise("NoColumns"), got.decoded, 0)
  ELSE Did(PyColl("list", [i \in 1..Len(got.rows[1]) |->
                             got.rows[1][i].entries[1][2]]),
           got.decoded, 0)

\* ScyllaPyQueryResult::scalar, from what get_rows(py, Some(1)) returned.
scalar_row(got, col_specs) ==
  IF ~got.ok \/ got.rows = NoneOf THEN NoRows(got)
  ELSE IF got.rows[1] = <<>> THEN Did(PyNone, 0, 0)
  ELSE IF col_specs = <<>> THEN Did(Raise("NoColumns"), got.decoded, 0)
  ELSE Did(got.rows[1][1].entries[1][2], got.decoded, 0)

\* ScyllaPyQueryResult::__len__: `rows_num()` fails without a row set.
len(self) ==
  IF self.rows = NoneOf THEN Did(Raise("NoReturnsError"), 0, 0)
  ELSE Did(PyInt(Len(self.rows[1])), 0, 0)

\* The row a stream with column specs `specs` yields: one present value
\* of the declared type per column.
RowOf(specs) ==
  [j \in 1..Len(specs) |->
     Some(IF specs[j].typ.kind = "Int" THEN WireInt ELSE WireText)]

\* `if let Some(mapper) = map_function { mapper.call(gil, (), Some(row_dict)) }
\* else { row_dict }`, after the `?` of the column loop.
Shaped(row_dict, map_function) ==
  IF row_dict.py = "Err" THEN row_dict
  ELSE IF map_function # NoneOf THEN Call(map_function[1], row_dict)
  ELSE row_dict

\* Faulty variant: the row transform is applied in scalar mode as well.
AnextValue_MapsScalars(specs, row, map_function, sc) ==
  Shaped(DumpRow(specs, row), map_function)

\* The `Some(val)` arm of __anext__ for a row that was fetched: the first
\* column in scalar mode, else the row's mapping or the transform's result.
AnextValue(specs, row, map_function, sc) ==
  IF sc
    THEN IF specs = <<>> \/ row = <<>> THEN Raise("NoColumns")
         ELSE cql_to_py(specs[1].name, specs[1].typ, row[1])
    ELSE Shaped(DumpRow(specs, row), map_function)

\* What __anext__ copies out of the cursor before it creates its future.
NoCapture == [map_function |-> NoneOf, scalars |-> FALSE]

NoResult == [col_specs |-> <<>>]
NoCall == [method |-> "none"]

ResultIdle ==
  /\ query_result = NoResult
  /\ returned = NoCall

\* ------------------------------------------------------------- InlineBatch
\* Total number of append calls on one inline batch.
MaxAppends == 3

\* `ScyllaPyInlineBatch::py_new`: `inner: Batch::new(..)`, `values: vec![]`.
NewInlineBatch == [inner |-> <<>>, values |-> <<>>]

\* `self.inner.append_statement(query)`.
append_statement(self, query) == [self EXCEPT !.inner = Append(@, query)]

\* `self.values.push(values)`.
push(self, values) == [self EXCEPT !.values = Append(@, values)]

\* ScyllaPyInlineBatch::add_query_inner.
add_query_inner(self, query, values) ==
  push(append_statement(self, query), values)

\* ScyllaPyInlineBatch::add_query: the batch it leaves and what it returns.
\* `values` is the host's optional bind-value list, which encodes or not.
add_query(self, query, values) ==
  IF values = NoneOf
    THEN [batch |-> push(append_statement(self, query),
                         [of |-> query.id, bound |-> "SerializedValues::new"]),
          out |-> "Ok"]
  ELSE IF values[1].encodes
    THEN [batch |-> push(append_statement(self, query),
                         [of |-> query.id, bound |-> "parsed"]),
          out |-> "Ok"]
  ELSE [batch |-> append_statement(self, query), out |-> "BindingError"]

\* Insert::add_to_batch (Select, Update and Delete alike): `build_query()?`
\* and `serialized.add_value(&val)?` come before add_query_inner.
add_to_batch(self, batch) ==
  IF ~self.builds THEN [batch |-> batch, out |-> "QueryBuilderError"]
  ELSE IF ~self.encodes THEN [batch |-> batch, out |-> "ScyllaValueError"]
  ELSE [batch |-> add_query_inner(batch, [id |-> self.id, text |-> "built"],
                                  [of |-> self.id, bound |-> "serialized"]),
        out |-> "Ok"]

NoBatch == [inner |-> <<>>]
NoAppend == [call |-> 0]

InlineIdle ==
  /\ inline_batch = NoBatch
  /\ append_out = NoAppend

PureIdle == ParamsIdle /\ CodecIdle /\ ResultIdle /\ InlineIdle

\* ------------------------------------------------------------ initial state
SessionInit ==
  /\ scylla_session = None
  /\ guard = Unlocked
  /\ username \in BOOLEAN
  /\ password \in BOOLEAN
  /\ pc = [p \in Procs |-> "idle"]
  /\ op = [p \in Procs |-> "none"]
  /\ mode = [p \in Procs |-> "r"]
  /\ session_ref = [p \in Procs |-> None]
  /\ result = [p \in Procs |-> "none"]
  /\ gen = 0
  /\ ncalls = 0
  /\ batch_in = [p \in Procs |-> PlainBatch]
  /\ submitted = NothingSubmitted

CursorIdle ==
  /\ position = 0
  /\ streamer = MutexUnlocked
  /\ fpc = [p \in Procs |-> "idle"]
  /\ fetched = [p \in Procs |-> 0]
  /\ yielded = <<>>
  /\ nfetch = 0
  /\ mapper = NoneOf
  /\ scalars = FALSE
  /\ captured = [p \in Procs |-> NoCapture]

\* A Session after construction; no cursor is open.
Init ==
  /\ SessionInit
  /\ rows = <<>> /\ col_spec = <<>>
  /\ CursorIdle
  /\ PureIdle

\* The least task.
Host == {p \in Procs : \A q \in Procs : p <= q}

\* A StreamingCursor after construction: the Host task has started a
\* Session without credentials and its paged execute has returned the
\* cursor over some row stream.
CursorOpen ==
  /\ gen = 1
  /\ scylla_session = gen
  /\ guard = Unlocked
  /\ username = FALSE
  /\ password = FALSE
  /\ pc = [p \in Procs |-> "idle"]
  /\ op = [p \in Procs |-> IF p \in Host THEN "execute" ELSE "none"]
  /\ mode = [p \in Procs |-> "r"]
  /\ session_ref = [p \in Procs |-> None]
  /\ result = [p \in Procs |-> IF p \in Host THEN "Ok" ELSE "none"]
  /\ ncalls = 2
  /\ batch_in = [p \in Procs |-> PlainBatch]
  /\ submitted = NothingSubmitted
  /\ rows \in Streams
  /\ CursorIdle
  /\ PureIdle

\* The cursor of a query that selects one integer column.
InitCursor ==
  /\ CursorOpen
  /\ col_spec = <<ColumnSpec("a", Native("Int"))>>

\* --------------------------------------------------------- Session actions
\* A host call creates its future, which runs to its first lock await.
Begin(p, o) ==
  /\ pc[p] = "idle"
  /\ ncalls < MaxCalls
  /\ ncalls' = ncalls + 1
  /\ op' = [op EXCEPT ![p] = o]
  /\ mode' = [mode EXCEPT ![p] = GuardSide(o)]
  /\ guard' = Acquire(guard, p, GuardSide(o))
  /\ pc' = [pc EXCEPT ![p] = IF Holds(guard', p) THEN "locked" ELSE "wait"]
  /\ result' = [result EXCEPT ![p] = "none"]
  /\ UNCHANGED <<scylla_session, username, password, session_ref, gen>>
  /\ UNCHANGED <<submitted, cursorVars, pureVars>>

\* A host call fails while its arguments are converted: no future is made.
Reject(p, o, r) ==
  /\ pc[p] = "idle"
  /\ ncalls < MaxCalls
  /\ ncalls' = ncalls + 1
  /\ op' = [op EXCEPT ![p] = o]
  /\ result' = [result EXCEPT ![p] = r]
  /\ UNCHANGED <<scylla_session, guard, username, password, pc, mode,
                 session_ref, gen>>
  /\ UNCHANGED <<submitted, cursorVars, pureVars>>

\* Faulty variant: an early return with an error keeps the guard.
Finish_KeepsGuardOnError(p, r) ==
  /\ guard' = IF r = "Ok" THEN Release(guard, p) ELSE guard
  /\ pc' = [pc EXCEPT ![p] = "idle"]
  /\ mode' = [mode EXCEPT ![p] = "r"]
  /\ session_ref' = [session_ref EXCEPT ![p] = None]
  /\ result' = [result EXCEPT ![p] = r]

\* The call ends: its guard and its borrow of the handle are dropped and
\* its outcome is handed to the host.
Finish(p, r) ==
  /\ guard' = Release(guard, p)
  /\ pc' = [pc EXCEPT ![p] = "idle"]
  /\ mode' = [mode EXCEPT ![p] = "r"]
  /\ session_ref' = [session_ref EXCEPT ![p] = None]
  /\ result' = [result EXCEPT ![p] = r]

\* The head of the queue is granted the guard once its side is compatible.
Wake(p) ==
  /\ pc[p] = "wait"
  /\ NextInLine(guard, p, mode[p])
  /\ guard' = Grant([guard EXCEPT !.queue = Tail(@)], p, mode[p])
  /\ pc' = [pc EXCEPT ![p] = "locked"]
  /\ UNCHANGED <<scylla_session, username, password, op, mode, session_ref,
                 result, gen, ncalls>>
  /\ UNCHANGED <<batchVars, cursorVars, pureVars>>

startup(p) ==
  /\ Begin(p, "startup")
  /\ UNCHANGED batch_in

\* startup, from the granted read guard to `scylla_session.write().await`.
startup_check(p) ==
  /\ pc[p] = "locked" /\ op[p] = "startup" /\ mode[p] = "r"
  /\ IF IsSome(scylla_session) \/ ~CredentialsMatch(username, password)
       THEN /\ Finish(p, "SessionError")
       ELSE /\ guard' = Acquire(Release(guard, p), p, "w")
            /\ mode' = [mode EXCEPT ![p] = "w"]
            /\ pc' = [pc EXCEPT ![p] =
                        IF Holds(guard', p) THEN "locked" ELSE "wait"]
            /\ UNCHANGED <<result, session_ref>>
  /\ UNCHANGED <<scylla_session, username, password, op, gen, ncalls>>
  /\ UNCHANGED <<batchVars, cursorVars, pureVars>>

\* startup, under the write guard: build the pool and store its handle.
startup_build(p) ==
  /\ pc[p] = "locked" /\ op[p] = "startup" /\ mode[p] = "w"
  /\ \E connected \in BOOLEAN :
       IF connected
         THEN /\ gen' = gen + 1
              /\ scylla_session' = gen + 1
              /\ Finish(p, "Ok")
         ELSE /\ Finish(p, "ScyllaSessionError")
              /\ UNCHANGED <<scylla_session, gen>>
  /\ UNCHANGED <<username, password, op, ncalls>>
  /\ UNCHANGED <<batchVars, cursorVars, pureVars>>

shutdown(p) ==
  /\ Begin(p, "shutdown")
  /\ UNCHANGED batch_in

\* Faulty variant: shutdown reports success and leaves the handle in place.
shutdown_take_KeepsHandle(p) ==
  /\ pc[p] = "locked" /\ op[p] = "shutdown"
  /\ IF IsSome(scylla_session)
       THEN Finish(p, "Ok")
       ELSE Finish(p, "SessionError")
  /\ UNCHANGED <<scylla_session, username, password, op, gen, ncalls>>
  /\ UNCHANGED <<batchVars, cursorVars, pureVars>>

\* shutdown, under the write guard.
shutdown_take(p) ==
  /\ pc[p] = "locked" /\ op[p] = "shutdown"
  /\ IF IsSome(scylla_session)
       THEN /\ scylla_session' = None
            /\ Finish(p, "Ok")
       ELSE /\ Finish(p, "SessionError")
            /\ UNCHANGED scylla_session
  /\ UNCHANGED <<username, password, op, gen, ncalls>>
  /\ UNCHANGED <<batchVars, cursorVars, pureVars>>

\* execute: the bind values are encoded before the future is created.
execute(p) ==
  /\ \E bound \in BOOLEAN :
       IF bound THEN Begin(p, "execute")
                ELSE Reject(p, "execute", "BindingError")
  /\ UNCHANGED batch_in

\* batch: the passed bind-value sets are encoded, the batch converted, and
\* the future created.
batch_with(p, b) ==
  /\ IF BatchBinds(b) THEN Begin(p, "batch")
                      ELSE Reject(p, "batch", "BindingError")
  /\ batch_in' = [batch_in EXCEPT ![p] = b]

batch(p) == \E b \in BatchInputs : batch_with(p, b)

batch_plain(p) == batch_with(p, PlainBatch)

prepare(p) ==
  /\ Begin(p, "prepare")
  /\ UNCHANGED batch_in

use_keyspace(p) ==
  /\ Begin(p, "use_keyspace")
  /\ UNCHANGED batch_in

get_keyspace(p) ==
  /\ Begin(p, "get_keyspace")
  /\ UNCHANGED batch_in

\* execute / batch / prepare / use_keyspace, from the granted guard to the
\* awaited driver call.
session_as_ref(p) ==
  /\ pc[p] = "locked" /\ op[p] \in ReadOps \cup {"use_keyspace"}
  /\ IF IsSome(scylla_session)
       THEN /\ session_ref' = [session_ref EXCEPT ![p] = scylla_session]
            /\ pc' = [pc EXCEPT ![p] = "driver"]
            /\ submitted' =
                 IF op[p] = "batch"
                   THEN [kind |-> batch_in[p].kind,
                         nstmt |-> batch_in[p].nstmt,
                         values |-> BatchParams(batch_in[p])]
                   ELSE submitted
            /\ UNCHANGED <<guard, mode, result>>
       ELSE /\ Finish(p, "SessionError")
            /\ UNCHANGED submitted
  /\ UNCHANGED <<scylla_session, username, password, op, gen, ncalls>>
  /\ UNCHANGED <<batch_in, cursorVars, pureVars>>

\* get_keyspace, under its guard: no await, the future runs to its end.
get_keyspace_read(p) ==
  /\ pc[p] = "locked" /\ op[p] = "get_keyspace"
  /\ IF IsSome(scylla_session)
       THEN Finish(p, "Ok")
       ELSE Finish(p, "SessionError")
  /\ UNCHANGED <<scylla_session, username, password, op, gen, ncalls>>
  /\ UNCHANGED <<batchVars, cursorVars, pureVars>>

\* Faulty variant: the value a successful execute returns keeps the guard.
driver_return_KeepsGuard(p) ==
  /\ pc[p] = "driver"
  /\ \E ok \in BOOLEAN :
       IF ok /\ op[p] = "execute"
         THEN /\ pc' = [pc EXCEPT ![p] = "idle"]
              /\ result' = [result EXCEPT ![p] = "Ok"]
              /\ UNCHANGED <<guard, mode, session_ref>>
         ELSE Finish(p, IF ok THEN "Ok" ELSE "QueryError")
  /\ UNCHANGED <<scylla_session, username, password, op, gen, ncalls>>
  /\ UNCHANGED <<batchVars, cursorVars, pureVars>>

\* The awaited driver call returns; `?` turns its error into the result.
driver_return(p) ==
  /\ pc[p] = "driver"
  /\ \E ok \in BOOLEAN : Finish(p, IF ok THEN "Ok" ELSE "QueryError")
  /\ UNCHANGED <<scylla_session, username, password, op, gen, ncalls>>
  /\ UNCHANGED <<batchVars, cursorVars, pureVars>>

Next ==
  \E p \in Procs :
    \/ startup(p)
    \/ startup_check(p)
    \/ startup_build(p)
    \/ shutdown(p)
    \/ shutdown_take(p)
    \/ execute(p)
    \/ batch_plain(p)
    \/ prepare(p)
    \/ use_keyspace(p)
    \/ get_keyspace(p)
    \/ session_as_ref(p)
    \/ get_keyspace_read(p)
    \/ driver_return(p)
    \/ Wake(p)

Spec == Init /\ [][Next]_vars

\* ---------------------------------------------------------- cursor actions
\* __anext__: the future is created and runs to `streamer.lock().await`.
anext(p) ==
  /\ fpc[p] = "idle"
  /\ nfetch < MaxFetches
  /\ nfetch' = nfetch + 1
  /\ streamer' = MutexLock(streamer, p)
  /\ fpc' = [fpc EXCEPT ![p] =
               IF p \in streamer'.holder THEN "locked" ELSE "wait"]
  /\ captured' = [captured EXCEPT
                    ![p] = [map_function |-> mapper, scalars |-> scalars]]
  /\ UNCHANGED <<rows, position, fetched, yielded, mapper, scalars, col_spec>>
  /\ UNCHANGED <<sessionVars, batchVars, pureVars>>

\* The head of the Mutex queue is granted the Mutex once it is free.
anext_wake(p) ==
  /\ fpc[p] = "wait"
  /\ streamer.queue # <<>>
  /\ Head(streamer.queue) = p
  /\ MutexFree(streamer)
  /\ streamer' = [streamer EXCEPT !.queue = Tail(@), !.holder = @ \cup {p}]
  /\ fpc' = [fpc EXCEPT ![p] = "locked"]
  /\ UNCHANGED <<rows, position, fetched, yielded, nfetch>>
  /\ UNCHANGED <<mapper, scalars, col_spec, captured>>
  /\ UNCHANGED <<sessionVars, batchVars, pureVars>>

\* Under the Mutex: `row_iterator.next()` starts from the stream's position
\* and suspends for the page.
anext_poll(p) ==
  /\ fpc[p] = "locked"
  /\ fetched' = [fetched EXCEPT ![p] = position]
  /\ fpc' = [fpc EXCEPT ![p] = "next"]
  /\ UNCHANGED <<rows, position, streamer, yielded, nfetch>>
  /\ UNCHANGED <<mapper, scalars, col_spec, captured>>
  /\ UNCHANGED <<sessionVars, batchVars, pureVars>>

\* `next()` resolves: the stream moves past the item, the item is matched,
\* the outcome handed to the host and the Mutex dropped.
anext_yield(p) ==
  /\ fpc[p] = "next"
  /\ LET i == StreamNext(rows, fetched[p])
     IN /\ position' = IF i = 0 THEN position ELSE i
        /\ yielded' = Append(yielded,
                        [task |-> p, item |-> i, out |-> AnextOutcome(rows, i),
                         cfg |-> captured[p],
                         value |-> IF AnextOutcome(rows, i) = "Row"
                                     THEN AnextValue(col_spec, RowOf(col_spec),
                                                     captured[p].map_function,
                                                     captured[p].scalars)
                                     ELSE PyNone])
  /\ streamer' = MutexUnlock(streamer, p)
  /\ fpc' = [fpc EXCEPT ![p] = "idle"]
  /\ fetched' = [fetched EXCEPT ![p] = 0]
  /\ captured' = [captured EXCEPT ![p] = NoCapture]
  /\ UNCHANGED <<rows, nfetch, mapper, scalars, col_spec>>
  /\ UNCHANGED <<sessionVars, batchVars, pureVars>>

NextCursor ==
  \E p \in Procs :
    \/ anext(p)
    \/ anext_wake(p)
    \/ anext_poll(p)
    \/ anext_yield(p)

SpecCursor == InitCursor /\ [][NextCursor]_vars

\* A StreamingCursor over a stream of any of the column lists.
InitShape ==
  /\ CursorOpen
  /\ col_spec \in ResultColumns

\* `cursor.as_cls(as_class)`: attaches the row transform, at any time.
as_cls ==
  /\ \E as_class \in {"Row"} : mapper' = Some(as_class)
  /\ UNCHANGED <<rows, position, streamer, fpc, fetched, yielded, nfetch,
                 scalars, col_spec, captured>>
  /\ UNCHANGED <<sessionVars, batchVars, pureVars>>

\* `cursor.scalars()`: sets scalar mode, at any time.
cursor_scalars ==
  /\ scalars' = TRUE
  /\ UNCHANGED <<rows, position, streamer, fpc, fetched, yielded, nfetch,
                 mapper, col_spec, captured>>
  /\ UNCHANGED <<sessionVars, batchVars, pureVars>>

\* One host task configuring the cursor and fetching from it, in any order.
NextShape ==
  \/ as_cls
  \/ cursor_scalars
  \/ \E p \in Host :
       \/ anext(p)
       \/ anext_poll(p)
       \/ anext_yield(p)

SpecShape == InitShape /\ [][NextShape]_vars

\* ------------------------------------------- paged execute beside a Session
\* A started Session without credentials, before any further call; the row
\* stream is the one a paged execute of the query will open, here one
\* whose pages all arrive.
InitPaged ==
  /\ gen = 1
  /\ scylla_session = gen
  /\ guard = Unlocked
  /\ username = FALSE
  /\ password = FALSE
  /\ pc = [p \in Procs |-> "idle"]
  /\ op = [p \in Procs |-> "none"]
  /\ mode = [p \in Procs |-> "r"]
  /\ session_ref = [p \in Procs |-> None]
  /\ result = [p \in Procs |-> "none"]
  /\ ncalls = 1
  /\ batch_in = [p \in Procs |-> PlainBatch]
  /\ submitted = NothingSubmitted
  /\ rows \in {r \in Streams : \A i \in 1..Len(r) : r[i] = "row"}
  /\ col_spec = <<ColumnSpec("a", Native("Int"))>>
  /\ CursorIdle
  /\ PureIdle

\* The Host task's paged execute has returned its StreamingCursor.
CursorIsOpen ==
  \E h \in Host : op[h] = "execute" /\ pc[h] = "idle" /\ result[h] = "Ok"

\* `execute(query, paged=True)` by the Host task, until it has a cursor.
execute_paged(p) ==
  /\ p \in Host
  /\ ~CursorIsOpen
  /\ Begin(p, "execute")
  /\ UNCHANGED batch_in

\* The Host task opens a cursor and, with the other tasks, fetches from it,
\* while the other tasks shut the Session down and start it.
NextPaged ==
  \E p \in Procs :
    \/ execute_paged(p)
    \/ session_as_ref(p)
    \/ driver_return(p)
    \/ p \notin Host /\ startup(p)
    \/ p \notin Host /\ shutdown(p)
    \/ startup_check(p)
    \/ startup_build(p)
    \/ shutdown_take(p)
    \/ Wake(p)
    \/ CursorIsOpen /\ anext(p)
    \/ anext_wake(p)
    \/ anext_poll(p)
    \/ anext_yield(p)

SpecPaged == InitPaged /\ [][NextPaged]_vars

\* One host task calling startup, shutdown and batch, one call at a time.
NextBatch ==
  \E p \in Host :
    \/ startup(p)
    \/ startup_check(p)
    \/ startup_build(p)
    \/ shutdown(p)
    \/ shutdown_take(p)
    \/ batch(p)
    \/ session_as_ref(p)
    \/ driver_return(p)

SpecBatch == Init /\ [][NextBatch]_vars

\* ------------------------------------------------- statement-level actions
\* A statement built from keyword arguments; nothing was derived or sent.
InitParams ==
  /\ SessionInit /\ username = FALSE /\ password = FALSE
  /\ rows = <<>> /\ col_spec = <<>>
  /\ CursorIdle
  /\ statement \in Statements
  /\ origin = NoOrigin
  /\ request = NoRequest
  /\ CodecIdle
  /\ ResultIdle
  /\ InlineIdle

\* `statement.with_<field>(v)`: the host keeps the receiver and gets the
\* returned statement.
with_(field, v) ==
  /\ request = NoRequest
  /\ statement' = With(statement, field, v)
  /\ origin' = [receiver |-> statement, field |-> field, value |-> v]
  /\ UNCHANGED <<request, sessionVars, batchVars, cursorVars, codecVars,
                 resultVars, inlineVars>>

with_consistency ==
  \E v \in OptionOf(ParamValues.consistency) : with_("consistency", v)

with_serial_consistency ==
  \E v \in OptionOf(ParamValues.serial_consistency) :
    with_("serial_consistency", v)

with_request_timeout ==
  \E v \in OptionOf(ParamValues.request_timeout) : with_("request_timeout", v)

with_timestamp ==
  \E v \in OptionOf(ParamValues.timestamp) : with_("timestamp", v)

with_is_idempotent ==
  \E v \in OptionOf(ParamValues.is_idempotent) : with_("is_idempotent", v)

with_tracing ==
  \E v \in OptionOf(ParamValues.tracing) : with_("tracing", v)

\* Only ScyllaPyQuery has with_profile.
with_profile ==
  /\ statement.cls = "ScyllaPyQuery"
  /\ \E v \in OptionOf(ParamValues.profile) : with_("profile", v)

\* Scylla::execute on the statement: `ExecuteInput::Query(query) =>
\* Query::from(query)`.
execute_Query ==
  /\ request = NoRequest
  /\ request' = [path |-> "query", params |-> statement.params,
                 driver |-> QueryFrom(statement)]
  /\ UNCHANGED <<statement, origin, sessionVars, batchVars, cursorVars,
                 codecVars, resultVars, inlineVars>>

\* Scylla::batch on a batch built from the same keyword arguments as the
\* statement: `BatchInput::Batch(batch) => batch.into()`.
batch_into ==
  /\ request = NoRequest
  /\ statement.cls = "ScyllaPyQuery"
  /\ request' = [path |-> "batch", params |-> statement.params,
                 driver |-> BatchFrom(statement.params)]
  /\ UNCHANGED <<statement, origin, sessionVars, batchVars, cursorVars,
                 codecVars, resultVars, inlineVars>>

NextParams ==
  \/ with_consistency
  \/ with_serial_consistency
  \/ with_request_timeout
  \/ with_timestamp
  \/ with_is_idempotent
  \/ with_tracing
  \/ with_profile
  \/ execute_Query
  \/ batch_into

SpecParams == InitParams /\ [][NextParams]_vars

\* ------------------------------------------------------------ codec actions
\* Either one parameter about to be bound, or one column value about to be
\* decoded.
InitCodec ==
  /\ SessionInit /\ username = FALSE /\ password = FALSE
  /\ rows = <<>> /\ col_spec = <<>>
  /\ CursorIdle
  /\ ParamsIdle
  /\ ResultIdle
  /\ InlineIdle
  /\ dto = NotRun
  /\ buf = <<>>
  /\ decoded = NoItem
  /\ \/ /\ item \in HostScalars \cup HostCollections
        /\ column_type \in DeclaredTypes
        /\ cql_type = Native("none")
        /\ cql_value = NoneOf
     \/ /\ item \in HostUdts
        /\ column_type \in {NoneOf, Some(UdtType("ks", "t", <<>>))}
        /\ cql_type = Native("none")
        /\ cql_value = NoneOf
     \/ /\ item = NoItem
        /\ column_type = NoneOf
        /\ \E d \in DecodeInputs : cql_type = d[1] /\ cql_value = d[2]

\* parse_python_query_params, for the one parameter: `py_to_value(param,
\* coltype)?` then `values.add_value(&py_dto)?`.
parse_python_query_params ==
  /\ item # NoItem /\ dto = NotRun
  /\ dto' = py_to_value(item, column_type)
  /\ buf' = serialize(dto')
  /\ UNCHANGED <<item, column_type, cql_type, cql_value, decoded>>
  /\ UNCHANGED <<sessionVars, batchVars, cursorVars, paramsVars, resultVars,
                 inlineVars>>

\* The bound duration is stored and a later query returns it: the wire
\* duration has the three components that were bound.
duration_read_back ==
  /\ dto.tag = "Duration" /\ cql_type = Native("none")
  /\ cql_type' = Native("Duration")
  /\ cql_value' = Some([kind |-> "Duration", months |-> dto.months,
                        days |-> dto.days, nanoseconds |-> dto.nanoseconds])
  /\ UNCHANGED <<item, column_type, dto, buf, decoded>>
  /\ UNCHANGED <<sessionVars, batchVars, cursorVars, paramsVars, resultVars,
                 inlineVars>>

\* cql_to_py on the column value of a returned row.
cql_to_py_column ==
  /\ cql_type # Native("none") /\ decoded = NoItem
  /\ decoded' = cql_to_py("col", cql_type, cql_value)
  /\ UNCHANGED <<item, column_type, dto, buf, cql_type, cql_value>>
  /\ UNCHANGED <<sessionVars, batchVars, cursorVars, paramsVars, resultVars,
                 inlineVars>>

NextCodec ==
  \/ parse_python_query_params
  \/ duration_read_back
  \/ cql_to_py_column

SpecCodec == InitCodec /\ [][NextCodec]_vars

\* ------------------------------------------------------- ResultSet actions
\* A materialized ResultSet over some QueryResult; no method was called.
InitResult ==
  /\ SessionInit /\ username = FALSE /\ password = FALSE
  /\ rows = <<>> /\ col_spec = <<>>
  /\ CursorIdle
  /\ ParamsIdle
  /\ CodecIdle
  /\ query_result \in QueryResults
  /\ returned = NoCall
  /\ InlineIdle

\* A method of the ResultSet returns to the host: an Err becomes the host
\* exception `From<ScyllaPyError> for PyErr` gives its kind.
Return(method, as_class, did) ==
  /\ returned' =
       [method |-> method, as_class |-> as_class, out |-> did.out,
        decoded |-> did.decoded, mapped |-> did.mapped,
        raised |-> IF did.out.py = "Err" THEN PyErrOf(did.out.err, "none")
                   ELSE "none"]
  /\ UNCHANGED <<query_result, sessionVars, batchVars, cursorVars, paramsVars,
                 codecVars, inlineVars>>

\* The row-shape transforms the host may pass.
RowShapes == OptionOf({"Row"})

ResultSet_all ==
  \E as_class \in RowShapes :
    Return("all", as_class, all_rows(get_rows(query_result, NoneOf), as_class))

ResultSet_first ==
  \E as_class \in RowShapes :
    Return("first", as_class,
           first_row(get_rows(query_result, Some(1)), as_class))

ResultSet_scalars ==
  Return("scalars", NoneOf,
         scalars_rows(get_rows(query_result, NoneOf), query_result.col_specs))

ResultSet_scalar ==
  Return("scalar", NoneOf,
         scalar_row(get_rows(query_result, Some(1)), query_result.col_specs))

ResultSet_len == Return("__len__", NoneOf, len(query_result))

NextResult ==
  \/ ResultSet_all
  \/ ResultSet_first
  \/ ResultSet_scalars
  \/ ResultSet_scalar
  \/ ResultSet_len

SpecResult == InitResult /\ [][NextResult]_vars

\* ----------------------------------------------------- InlineBatch actions
\* A new, empty inline batch.
InitInline ==
  /\ SessionInit /\ username = FALSE /\ password = FALSE
  /\ rows = <<>> /\ col_spec = <<>>
  /\ CursorIdle
  /\ ParamsIdle
  /\ CodecIdle
  /\ ResultIdle
  /\ inline_batch = NewInlineBatch
  /\ append_out = NoAppend

\* An append call returns: the batch is as the method left it.
Appended(did) ==
  /\ append_out.call < MaxAppends
  /\ inline_batch' = did.batch
  /\ append_out' = [call |-> append_out.call + 1, out |-> did.out]
  /\ UNCHANGED <<sessionVars, batchVars, cursorVars, paramsVars, codecVars,
                 resultVars>>

\* `batch.add_query(query)`: no values.
InlineBatch_add_query ==
  Appended(add_query(inline_batch,
                     [id |-> append_out.call + 1, text |-> "q"], NoneOf))

\* `batch.add_query(query, values)`.
InlineBatch_add_query_values ==
  \E encodes \in BOOLEAN :
    Appended(add_query(inline_batch,
                       [id |-> append_out.call + 1, text |-> "q"],
                       Some([encodes |-> encodes])))

\* `Insert(..).add_to_batch(batch)`.
Insert_add_to_batch ==
  \E builds, encodes \in BOOLEAN :
    Appended(add_to_batch([id |-> append_out.call + 1, builds |-> builds,
                           encodes |-> encodes], inline_batch))

NextInline ==
  \/ InlineBatch_add_query
  \/ InlineBatch_add_query_values
  \/ Insert_add_to_batch

SpecInline == InitInline /\ [][NextInline]_vars

\* The steps of task p that its future takes once the runtime polls it.
Progress(p) ==
  \/ Wake(p)
  \/ startup_check(p)
  \/ startup_build(p)
  \/ shutdown_take(p)
  \/ session_as_ref(p)
  \/ get_keyspace_read(p)
  \/ driver_return(p)

\* The tokio runtime polls every ready future, and every driver call returns.
FairSpec == Spec /\ \A p \in Procs : WF_vars(Progress(p))

\* ------------------------------------------------------- lifecycle states
Unstarted == scylla_session = None /\ gen = 0
Running == scylla_session # None
Stopped == scylla_session = None /\ gen > 0

AllIdle == \A q \in Procs : pc[q] = "idle"
OthersIdle(p) == \A q \in Procs \ {p} : pc[q] = "idle"
Stepped(p) == <<pc[p], mode[p]>> # <<pc'[p], mode'[p]>>

\* ================================================================== claims

\* C1 (as claimed): concurrent startup calls serialize, so a stored pool
\* handle is never overwritten by another startup: once a handle is stored,
\* the next value of the cell is that handle or, after a shutdown, None.
C1_StartupNeverOverwrites ==
  [][scylla_session # None => scylla_session' \in {scylla_session, None}]_vars

\* C2: in a sequential history (no other call in flight), a startup that
\* runs while the session holds a live pool handle fails with SessionError
\* and leaves the handle in place.
C2_SecondStartupFails ==
  [][\A p \in Procs :
       ( /\ op[p] = "startup" /\ pc[p] = "locked" /\ mode[p] = "r"
         /\ OthersIdle(p)
         /\ scylla_session # None
         /\ Stepped(p) )
       => ( /\ pc'[p] = "idle"
            /\ result'[p] = "SessionError"
            /\ scylla_session' = scylla_session
            /\ gen' = gen )]_vars

C2_Witness ==
  \E p \in Procs :
    /\ op[p] = "startup" /\ pc[p] = "idle" /\ result[p] = "SessionError"
    /\ AllIdle
    /\ scylla_session # None
    /\ ncalls = 2

C4_NoReentryAfterStopped ==
  [][Stopped => ~Running']_vars

\* C4 (amended): Running is entered only by a startup that stores a fresh
\* handle under the write guard, and left only by a shutdown that succeeds
\* and leaves no handle; a Stopped session is in the state of an Unstarted
\* one, so a later startup makes it Running again.
C4_Lifecycle ==
  [][/\ (~Running /\ Running') =>
          \E p \in Procs :
            /\ op[p] = "startup" /\ pc[p] = "locked" /\ mode[p] = "w"
            /\ pc'[p] = "idle" /\ result'[p] = "Ok"
            /\ scylla_session' = gen'
            /\ gen' = gen + 1
     /\ (Running /\ ~Running') =>
          \E p \in Procs :
            /\ op[p] = "shutdown" /\ pc[p] = "locked"
            /\ pc'[p] = "idle" /\ result'[p] = "Ok"
     /\ \A p \in Procs :
          (op[p] = "shutdown" /\ pc[p] = "locked" /\ result'[p] = "Ok")
          => Stopped']_vars

\* A shutdown has succeeded and the same Session is Running again.
C4_Witness ==
  \E p \in Procs :
    /\ op[p] = "shutdown" /\ pc[p] = "idle" /\ result[p] = "Ok"
    /\ Running

\* C5: a shutdown does not remove the pool handle while an execute, batch or
\* prepare is inside its driver call; the step that removes the handle is a
\* shutdown ending in success; and a waiting shutdown on a Running session,
\* with no other shutdown in flight, eventually completes successfully.
C5_ShutdownWaitsForReaders ==
  /\ [][(Running /\ ~Running') =>
          /\ \A p \in Procs : ~(op[p] \in ReadOps /\ pc[p] = "driver")
          /\ \E s \in Procs :
               /\ op[s] = "shutdown" /\ pc[s] = "locked"
               /\ pc'[s] = "idle" /\ result'[s] = "Ok"]_vars
  /\ \A s \in Procs :
       ( /\ op[s] = "shutdown" /\ pc[s] = "wait"
         /\ Running
         /\ \A q \in Procs \ {s} : op[q] = "shutdown" => pc[q] = "idle" )
       ~> (op[s] = "shutdown" /\ pc[s] = "idle" /\ result[s] = "Ok")

\* A shutdown waits while a read call is inside its driver call.
C5_Witness ==
  \E s, p \in Procs :
    /\ op[s] = "shutdown" /\ pc[s] = "wait"
    /\ op[p] \in ReadOps /\ pc[p] = "driver"
    /\ p \in guard.readers
    /\ Running

\* C6: while an execute is inside its driver call, the pool handle in the
\* cell is the handle the call obtained: concurrent executes share the
\* handle and nothing replaces or removes it under them.
C6_ExecutesShareHandle ==
  \A p \in Procs :
    (op[p] = "execute" /\ pc[p] = "driver")
    => (session_ref[p] # None /\ scylla_session = session_ref[p])

\* Two executes are inside their driver calls at the same time.
C6_Witness ==
  \E p, q \in Procs :
    /\ p # q
    /\ op[p] = "execute" /\ pc[p] = "driver"
    /\ op[q] = "execute" /\ pc[q] = "driver"
    /\ {p, q} \subseteq guard.readers

\* C7 (as claimed): use_keyspace and get_keyspace hold only the shared side
\* of the guard, so no execute, batch or prepare waits while a keyspace call
\* holds the guard.
C7_KeyspaceCallsShareGuard ==
  \A k \in Procs :
    (op[k] \in KeyspaceOps /\ Holds(guard, k))
    => ( /\ k \in guard.readers
         /\ \A e \in Procs : op[e] \in ReadOps => pc[e] # "wait" )

\* The items the finished fetches were handed, in the order they finished.
YieldedItems ==
  LET got == SelectSeq(yielded, LAMBDA e : e.item # 0)
  IN [k \in 1..Len(got) |-> got[k].item]

\* The number of stream items handed out before the i-th finished fetch.
ItemsBefore(i) == Cardinality({j \in 1..(i - 1) : yielded[j].item # 0})

\* The host exception classes of the error taxonomy.
TaxonomyClasses ==
  {"ScyllaPyBaseError", "ScyllaPyDBError", "ScyllaPySessionError",
   "ScyllaPyBindingError", "ScyllaPyMappingError", "ScyllaPyQueryBuiderError"}

\* C8: at most one fetch is advancing the row stream at any time, and the
\* items handed to the finished fetches are the items 1..position of the
\* stream, each once and in stream order: none skipped, none handed twice.
C8_FetchesSerialized ==
  /\ Cardinality({p \in Procs : fpc[p] \in {"locked", "next"}}) <= 1
  /\ position <= Len(rows)
  /\ YieldedItems = [k \in 1..position |-> k]

\* Overlapping fetches queued, and both have been handed an item.
C8_Witness ==
  /\ \E p, q \in Procs : fpc[p] = "next" /\ fpc[q] = "wait"
  /\ \E i, j \in 1..Len(yielded) :
       /\ yielded[i].task # yielded[j].task
       /\ yielded[i].item # 0 /\ yielded[j].item # 0

\* C9: a finished fetch reports the no-more-rows condition exactly when
\* every item of the stream had been handed out before it; that condition
\* is StopAsyncIteration, not an error class of the taxonomy; so every fetch
\* after the first such report reports it again and none returns a row.
C9_ExhaustionIsStable ==
  \A i \in 1..Len(yielded) :
    /\ (ItemsBefore(i) = Len(rows)) <=> (yielded[i].out = "StopAsyncIteration")
    /\ yielded[i].out = "StopAsyncIteration" =>
         /\ yielded[i].item = 0
         /\ yielded[i].out \notin TaxonomyClasses
         /\ \A j \in i..Len(yielded) : yielded[j].out = "StopAsyncIteration"

\* A stream with rows was exhausted and the end was reported twice.
C9_Witness ==
  /\ Len(rows) = MaxRows
  /\ \E i \in 1..Len(yielded) :
       /\ i < Len(yielded)
       /\ yielded[i].out = "StopAsyncIteration"
       /\ yielded[i + 1].out = "StopAsyncIteration"

\* C10 (as claimed): a batch call with an inline batch and a passed
\* bind-value list never reaches the driver and ends in an error.
C10_InlineBatchRejectsPassedValues ==
  \A p \in Procs :
    (op[p] = "batch" /\ batch_in[p].kind = "InlineBatch" /\ batch_in[p].given)
    => ( /\ pc[p] # "driver"
         /\ pc[p] = "idle" => result[p] \notin {"Ok", "QueryError"} )

\* C11 (as claimed): a deferred-binding batch reaches the driver only with
\* exactly one bind-value set per statement; a call that supplies another
\* number of sets (none included) never hands its list to the driver.
C11_BatchArityEnforced ==
  submitted.kind = "Batch" => Len(submitted.values) = submitted.nstmt

\* The driver field a RequestParameters field is applied to.
DriverFieldOf(f) == IF f = "profile" THEN "execution_profile_handle" ELSE f

\* C12 (as claimed): every RequestParameters field that is set reaches the
\* driver request on the batch path as on the ad-hoc query path: the batch's
\* request had the field's setter called, with the value the query request
\* built from the same RequestParameters carries.
C12_ParamsReachEveryPath ==
  request.path = "batch" =>
    \A f \in ParamFields :
      request.params[f] # NoneOf =>
        /\ request.driver[DriverFieldOf(f)] # NoneOf
        /\ request.driver[DriverFieldOf(f)] =
             apply_to_query(request.params, NewRequest)[DriverFieldOf(f)]

\* C13 (as claimed): the statement a with_x call returned has the text of
\* the receiver, the given value in field x, and the receiver's value in
\* every other RequestParameters field.
C13_WithKeepsOtherFields ==
  origin.field # "none" =>
    /\ statement.query = origin.receiver.query
    /\ statement.params[origin.field] = origin.value
    /\ \A g \in ParamFields \ {origin.field} :
         statement.params[g] = origin.receiver.params[g]

\* The tag and payload width the declared integer types name.
DeclaredWidth(ct) ==
  IF ct = NoneOf THEN <<"Int", 4>>
  ELSE CASE ct[1].kind = "TinyInt" -> <<"TinyInt", 1>>
         [] ct[1].kind = "SmallInt" -> <<"SmallInt", 2>>
         [] ct[1].kind = "Int" -> <<"Int", 4>>
         [] ct[1].kind = "BigInt" -> <<"BigInt", 8>>
         [] ct[1].kind = "Counter" -> <<"Counter", 8>>
         [] OTHER -> <<"none", 0>>

\* C14: a host integer bound under declared type TinyInt, SmallInt, Int,
\* BigInt or Counter becomes the variant of that name with a payload of 1,
\* 2, 4, 8 or 8 bytes, and the 4-byte Int when no type is declared; the only
\* other outcome is a failed call, for an integer outside the range of a
\* 1- or 2-byte width.  A host boolean becomes Bool under every declared
\* type.
C14_IntegerWidths ==
  dto # NotRun =>
    /\ item.py = "bool" => dto = [tag |-> "Bool", b |-> item.b] /\ Len(buf) = 1
    /\ (item.py = "int" /\ DeclaredWidth(column_type)[2] > 0) =>
         LET want == DeclaredWidth(column_type)
         IN IF \/ want[2] = 1 /\ (item.v < 0 - 128 \/ item.v > 127)
               \/ want[2] = 2 /\ (item.v < 0 - 32768 \/ item.v > 32767)
              THEN dto.tag = "Err"
              ELSE dto = [tag |-> want[1], v |-> item.v] /\ Len(buf) = want[2]

\* The integer 127 was bound to a counter column.
C14_Witness ==
  /\ item = PyInt(127)
  /\ column_type = Some(Native("Counter"))
  /\ dto.tag = "Counter"
  /\ Len(buf) = 8

\* What element-wise encoding under the element type would return.
RECURSIVE ElementWise(_, _)
ElementWise(x, ct) ==
  IF x.py \in {"list", "tuple", "set"} /\ ct # NoneOf /\ ct[1].kind \in {"List", "Set"}
    THEN LET items == [i \in 1..Len(x.items) |->
                         ElementWise(x.items[i], Some(ct[1].elem))]
         IN IF \E i \in 1..Len(items) : items[i].tag = "Err"
              THEN [tag |-> "Err"]
              ELSE [tag |-> "List", items |-> items]
    ELSE py_to_value(x, ct)

\* C15 (as claimed): a host list, tuple or set bound under declared type
\* list<T> or set<T> becomes the List of its elements encoded under T,
\* recursively.
C15_ElementsUseElementType ==
  ( /\ dto # NotRun
    /\ item.py \in {"list", "tuple", "set"}
    /\ column_type # NoneOf /\ column_type[1].kind \in {"List", "Set"} )
  => IF ElementWise(item, column_type).tag = "Err"
       THEN dto.tag = "Err"
       ELSE dto = ElementWise(item, column_type)

\* The wire value being decoded, once it is known to be present.
Wire == cql_value[1]

\* Whether host value r is, or contains, an object of class cls.
RECURSIVE Contains(_, _)
Contains(r, cls) ==
  \/ r.py = cls
  \/ r.py \in {"list", "set", "tuple"} /\
       \E i \in 1..Len(r.items) : Contains(r.items[i], cls)
  \/ r.py = "dict" /\
       \E i \in 1..Len(r.entries) :
         Contains(r.entries[i][1], cls) \/ Contains(r.entries[i][2], cls)

\* C16: no decoded value is or contains Unset; an absent wire value decodes
\* to the host's None under every declared type, and so does every absent
\* slot of a decoded tuple and every absent field of a decoded user-defined
\* type.
C16_AbsentDecodesToNone ==
  decoded # NoItem =>
    /\ ~Contains(decoded, "Unset")
    /\ cql_value = NoneOf => decoded = PyNone
    /\ (decoded.py = "tuple" /\ cql_type.kind = "Tuple") =>
         \A i \in 1..Len(decoded.items) :
           Wire.items[i] = NoneOf => decoded.items[i] = PyNone
    /\ (decoded.py = "dict" /\ cql_type.kind = "UserDefinedType") =>
         \A i \in 1..Len(decoded.entries) :
           Wire.fields[i][2] = NoneOf => decoded.entries[i][2] = PyNone

\* A tuple whose only slot is absent was decoded against a custom slot type.
C16_Witness ==
  /\ cql_type = TupleType(<<CustomType>>)
  /\ cql_value = Some([kind |-> "Tuple", items |-> <<NoneOf>>])
  /\ decoded = PyColl("tuple", <<PyNone>>)

\* The positions of wire value v that type t declares Custom, each marked
\* by whether a value is present there.
RECURSIVE CustomSlots(_, _)
CustomSlots(t, v) ==
  IF t.kind = "Custom" THEN {IF v = NoneOf THEN "absent" ELSE "present"}
  ELSE IF v = NoneOf THEN {}
  ELSE LET u == v[1] IN
    CASE t.kind \in {"List", "Set"} /\ u.kind = t.kind ->
           UNION {CustomSlots(t.elem, Some(u.items[i])) : i \in 1..Len(u.items)}
      [] t.kind = "Map" /\ u.kind = "Map" ->
           UNION {CustomSlots(t.key, Some(u.pairs[i][1]))
                    \cup CustomSlots(t.val, Some(u.pairs[i][2])) :
                  i \in 1..Len(u.pairs)}
      [] t.kind = "Tuple" /\ u.kind = "Tuple" ->
           UNION {CustomSlots(t.types[i], u.items[i]) :
                  i \in {j \in 1..Len(t.types) : j <= Len(u.items)}}
      [] t.kind = "UserDefinedType" /\ u.kind = "UserDefinedType" ->
           UNION {CustomSlots(FieldType(t.field_types, u.fields[i][1])[1],
                              u.fields[i][2]) :
                  i \in {j \in 1..Len(u.fields) :
                           FieldType(t.field_types, u.fields[j][1]) # NoneOf}}
      [] OTHER -> {}

\* C17 (as claimed): decoding returns an error whenever a position of the
\* input, the top level included, is declared Custom, whatever is there.
C17_CustomAlwaysErrors ==
  (decoded # NoItem /\ CustomSlots(cql_type, cql_value) # {}) =>
    decoded.py = "Err"

\* C17 (amended): decoding returns a typed decode error whenever a value is
\* present at a position declared Custom, at top level or nested; at top
\* level that error is ValueDowncastError, and an absent value declared
\* Custom decodes to None.
C17_CustomErrorsWhenPresent ==
  decoded # NoItem =>
    /\ "present" \in CustomSlots(cql_type, cql_value) =>
         /\ decoded.py = "Err"
         /\ decoded.err \in {"ValueDowncastError", "UDTDowncastError"}
    /\ cql_type.kind = "Custom" =>
         decoded = IF cql_value = NoneOf THEN PyNone
                   ELSE ValueDowncastError("col", "Unknown")

\* A tuple with a value in its custom-typed second slot was decoded.
C17_Witness ==
  /\ cql_type = TupleType(<<Native("Int"), CustomType>>)
  /\ cql_value = Some([kind |-> "Tuple", items |-> <<Some(WireInt), Some(WireInt)>>])
  /\ decoded = ValueDowncastError("col", "Unknown")

\* C18 (as claimed): a wire tuple decoded against tuple<T1..Tn> is an error
\* when it does not have n slots; when it has, the result is an error of a
\* slot or the n slots in order, slot i decoded against Ti.
C18_TupleArityChecked ==
  ( /\ decoded # NoItem
    /\ cql_type.kind = "Tuple"
    /\ cql_value # NoneOf /\ Wire.kind = "Tuple" )
  => IF Len(cql_type.types) # Len(Wire.items)
       THEN decoded.py = "Err"
       ELSE \/ decoded.py = "Err"
            \/ /\ decoded.py = "tuple"
               /\ Len(decoded.items) = Len(cql_type.types)
               /\ \A i \in 1..Len(cql_type.types) :
                    decoded.items[i] =
                      cql_to_py("col", cql_type.types[i], Wire.items[i])

\* The wire fields of the user-defined type being decoded that its
\* declared field types do not name, by position.
Undeclared ==
  {i \in 1..Len(Wire.fields) :
     \A k \in 1..Len(cql_type.field_types) :
       cql_type.field_types[k][1] # Wire.fields[i][1]}

DecodingUdt ==
  /\ decoded # NoItem
  /\ cql_type.kind = "UserDefinedType"
  /\ cql_value # NoneOf /\ Wire.kind = "UserDefinedType"

\* C19 (as claimed): a wire user-defined type with a field its declared
\* field types do not name decodes to UDTDowncastError with the
\* keyspace-qualified type name and the name of such a field.
C19_UnknownFieldIsUdtError ==
  (DecodingUdt /\ Undeclared # {}) =>
    /\ decoded.py = "Err" /\ decoded.err = "UDTDowncastError"
    /\ decoded.udt = <<cql_type.keyspace, ".", cql_type.type_name>>
    /\ \E i \in Undeclared : decoded.message[2] = Wire.fields[i][1]

\* What decoding wire field i of the user-defined type returns.
FieldDecoded(i) ==
  cql_to_py("col", FieldType(cql_type.field_types, Wire.fields[i][1])[1],
            Wire.fields[i][2])

\* C19 (amended): a wire user-defined type with an undeclared field never
\* decodes to a mapping.  Its fields are decoded in wire order up to the
\* first failure: when every field before the first undeclared one decodes,
\* the error is UDTDowncastError with the keyspace-qualified type name and
\* that field's name; otherwise it is the decode error of the first failing
\* field.  When every wire field is declared and decodes, the mapping has
\* each field decoded against its declared type.
C19_UnknownFieldFails ==
  DecodingUdt =>
    LET first == CHOOSE i \in Undeclared : \A j \in Undeclared : i <= j
        failing == {i \in 1..Len(Wire.fields) :
                      i \notin Undeclared /\ FieldDecoded(i).py = "Err"}
    IN /\ Undeclared # {} =>
            /\ decoded.py = "Err"
            /\ IF \A i \in failing : first < i
                 THEN decoded = UDTDowncastError(cql_type, "col", Wire.fields[first][1])
                 ELSE \E i \in failing : i < first /\ decoded = FieldDecoded(i)
       /\ (Undeclared = {} /\ failing = {}) =>
            /\ decoded.py = "dict"
            /\ Len(decoded.entries) = Len(Wire.fields)
            /\ \A i \in 1..Len(Wire.fields) :
                 decoded.entries[i] = <<PyStr(Wire.fields[i][1]), FieldDecoded(i)>>

\* A declared field was decoded, then an undeclared one was met.
C19_Witness ==
  /\ cql_type = UdtType("ks", "t", <<<<"a", Native("Int")>>>>)
  /\ cql_value = Some([kind |-> "UserDefinedType",
                       fields |-> <<<<"a", Some(WireInt)>>, <<"z", Some(WireInt)>>>>])
  /\ decoded = UDTDowncastError(cql_type, "col", "z")

\* C20 (as claimed): a relativedelta of m months, d days, s seconds and u
\* microseconds is bound as the duration (m, d, s*10^9 + u*10^3
\* nanoseconds), and that duration read back decodes to m months, d days
\* and s*10^6 + u microseconds.
C20_DurationRoundTrip ==
  (item.py = "relativedelta" /\ dto # NotRun) =>
    /\ dto = [tag |-> "Duration", months |-> item.months, days |-> item.days,
              nanoseconds |-> item.seconds * 1000000000
                                + item.microseconds * 1000]
    /\ decoded # NoItem =>
         /\ decoded.py = "relativedelta"
         /\ decoded.months = item.months
         /\ decoded.days = item.days
         /\ decoded.seconds * 1000000 + decoded.microseconds =
              item.seconds * 1000000 + item.microseconds

\* The error kinds of the taxonomy.
TaxonomyKinds ==
  {"SessionError", "BindingError", "ValueDowncastError", "UDTDowncastError",
   "NoReturnsError", "NoColumns", "QueryBuilderError"}

\* C21 (as claimed): the host exception class raised for an error kind of
\* the taxonomy is the class of no other kind of the taxonomy, so the class
\* tells the host which kind occurred.
C21_KindsDistinguishable ==
  (returned # NoCall /\ returned.out.py = "Err"
     /\ returned.out.err \in TaxonomyKinds)
  => \A e \in TaxonomyKinds \ {returned.out.err} :
       PyErrOf(e, "none") # returned.raised

\* C22 (as claimed): on a ResultSet without a row set, all, first, scalars,
\* scalar and len fail with NoReturnsError; on a row set whose column list
\* is empty, scalars and scalar fail with NoColumns, whatever the number of
\* rows.
C22_ResultErrors ==
  returned # NoCall =>
    /\ query_result.rows = NoneOf => returned.out = Raise("NoReturnsError")
    /\ ( /\ query_result.rows # NoneOf
         /\ query_result.col_specs = <<>>
         /\ returned.method \in {"scalars", "scalar"} )
       => returned.out = Raise("NoColumns")

\* C27 (as claimed): on a row set of k >= 1 rows, first and scalar decode
\* exactly one row, and first with a row-shape transform calls the
\* transform exactly once, on the first row.
C27_FirstDecodesOneRow ==
  ( /\ returned # NoCall
    /\ returned.method \in {"first", "scalar"}
    /\ query_result.rows # NoneOf
    /\ Len(query_result.rows[1]) >= 1 )
  => /\ returned.decoded = 1
     /\ (returned.as_class # NoneOf /\ returned.out.py # "Err") =>
          /\ returned.mapped = 1
          /\ returned.out =
               Call(returned.as_class[1],
                    DumpRow(query_result.col_specs, query_result.rows[1][1]))

\* What each field value the object's __dump_udt__ returned is bound as on
\* its own, with no declared type.
DumpedFields ==
  [i \in 1..Len(item.dumped.items) |-> py_to_value(item.dumped.items[i], NoneOf)]

\* C26: a host object whose __dump_udt__ returns a list of N field values
\* is bound as a Udt whose first 4 bytes are the big-endian signed 32-bit
\* value of (payload length - 4) and whose other bytes are the serialized
\* bytes of the N fields, in the returned order; when the payload is longer
\* than a signed 32-bit integer holds (here: two values of 2^30 bytes in
\* it) the call fails with a BindingError, and when a field cannot be bound
\* the call fails.
C26_UdtLengthHeader ==
  (dto # NotRun /\ item.py = "udt" /\ item.dumped.py = "list") =>
    LET body == Flatten([i \in 1..Len(DumpedFields) |-> Cell(DumpedFields[i])])
    IN IF \E i \in 1..Len(DumpedFields) : DumpedFields[i].tag = "Err"
         THEN dto.tag = "Err"
       ELSE IF BlobsIn(body) >= 2
         THEN dto = [tag |-> "Err", err |-> "BindingError", inner |-> "none"]
       ELSE /\ dto.tag = "Udt"
            /\ SubSeq(dto.bytes, 1, 4) = BigEndian(ByteCount(dto.bytes) - 4, 4)
            /\ SubSeq(dto.bytes, 5, Len(dto.bytes)) = body
            /\ buf = dto.bytes

\* An object with a nested object and a 2^30-byte value was bound.
C26_Witness ==
  /\ item = [py |-> "udt",
              dumped |-> PyColl("list",
                <<[py |-> "udt", dumped |-> PyColl("list", <<PyInt(1)>>)],
                  BigBytes>>)]
  /\ dto.tag = "Udt"
  /\ dto.bytes = <<64, 0, 0, 16, 0, 0, 0, 8, 0, 0, 0, 4, 0, 0, 0, 1,
                   64, 0, 0, 0, Blob>>

\* C28 (as claimed): after any sequence of appends on an inline batch,
\* failed ones included, there are as many pre-bound value sets as
\* statements and the i-th value set is the one bound for the i-th
\* statement; an append that fails leaves the batch unchanged.
C28_InlineBatchAligned ==
  /\ [](/\ Len(inline_batch.values) = Len(inline_batch.inner)
        /\ \A i \in 1..Len(inline_batch.inner) :
             i <= Len(inline_batch.values) =>
               inline_batch.values[i].of = inline_batch.inner[i].id)
  /\ [][(append_out'.call # append_out.call /\ append_out'.out # "Ok")
          => inline_batch' = inline_batch]_vars

\* The shape of the value a fetch returns under the configuration it
\* copied.
ShapeOf(cfg) ==
  IF cfg.scalars THEN "scalar"
  ELSE IF cfg.map_function # NoneOf THEN "transformed" ELSE "mapping"

\* C24: a fetch that obtains a row returns, with scalar mode set, the
\* decoded first column and never the transform's result, or NoColumns when
\* the stream has no columns; without scalar mode and without a transform,
\* the mapping column name -> decoded value of the full row; without scalar
\* mode and with a transform, the transform's result on that mapping.
C24_FetchShape ==
  \A k \in 1..Len(yielded) :
    yielded[k].out = "Row" =>
      LET row_dict ==
            [py |-> "dict",
             entries |-> [j \in 1..Len(col_spec) |->
                            <<PyStr(col_spec[j].name),
                              cql_to_py(col_spec[j].name, col_spec[j].typ,
                                        RowOf(col_spec)[j])>>]]
      IN CASE ShapeOf(yielded[k].cfg) = "scalar" ->
                yielded[k].value =
                  IF col_spec = <<>> THEN Raise("NoColumns")
                  ELSE cql_to_py(col_spec[1].name, col_spec[1].typ,
                                 RowOf(col_spec)[1])
           [] ShapeOf(yielded[k].cfg) = "mapping" ->
                yielded[k].value = row_dict
           [] ShapeOf(yielded[k].cfg) = "transformed" ->
                yielded[k].value =
                  Call(yielded[k].cfg.map_function[1], row_dict)

\* A fetch on a cursor with both a transform and scalar mode returned the
\* first column.
C24_Witness ==
  \E k \in 1..Len(yielded) :
    /\ yielded[k].out = "Row"
    /\ yielded[k].cfg = [map_function |-> Some("Row"), scalars |-> TRUE]
    /\ Len(col_spec) = 2
    /\ yielded[k].value = PyInt(1)

\* C25 (as claimed): once the first fetch has been issued, as_cls and
\* scalars no longer change the shape of what fetches return: all rows the
\* cursor returns have one shape.
C25_ConfigFrozen ==
  \A i, j \in 1..Len(yielded) :
    (yielded[i].out = "Row" /\ yielded[j].out = "Row")
    => ShapeOf(yielded[i].cfg) = ShapeOf(yielded[j].cfg)

\* The tasks queued for the session guard.
Queued(g) == {g.queue[i][1] : i \in 1..Len(g.queue)}

\* C23: no session operation leaves the guard held after it finishes: a
\* task holds the guard only while its call is under the guard or in the
\* driver, queues for it only while its call waits, and once every call has
\* ended, in success or in any error, the guard is free for a later
\* startup or shutdown.
C23_GuardReleasedOnEveryExit ==
  /\ \A p \in Procs :
       /\ Holds(guard, p) => pc[p] \in {"locked", "driver"}
       /\ p \in Queued(guard) => pc[p] = "wait"
       /\ pc[p] = "idle" => session_ref[p] = None
  /\ (\A p \in Procs : pc[p] = "idle") => guard = Unlocked

\* A call has ended in a driver error and a later shutdown holds the
\* exclusive guard.
C23_Witness ==
  \E p, q \in Procs :
    /\ p # q
    /\ pc[p] = "idle" /\ result[p] = "QueryError"
    /\ op[q] = "shutdown" /\ pc[q] = "locked" /\ guard.writers = {q}

\* C29: a startup that ends in an error stores no handle and releases the
\* guard: the step leaves the handle as it was (an Unstarted session stays
\* Unstarted, so operations on it keep failing with SessionError), the
\* task neither holds nor queues for the guard and may call startup anew;
\* the error is a SessionError or the driver's connection error, and a
\* username without a password, or the reverse, always ends in
\* SessionError.
C29_FailedStartupStoresNothing ==
  [][\A p \in Procs :
       (op[p] = "startup" /\ pc[p] = "locked" /\ pc'[p] = "idle")
       => /\ result'[p] # "Ok"
               => /\ scylla_session' = scylla_session
                  /\ gen' = gen
                  /\ ~Holds(guard', p) /\ p \notin Queued(guard')
                  /\ result'[p] \in {"SessionError", "ScyllaSessionError"}
          /\ username # password
               => result'[p] = "SessionError"]_vars

\* A startup failed to connect, left nothing behind, and another startup
\* then stored a handle.
C29_Witness ==
  \E p, q \in Procs :
    /\ p # q
    /\ op[p] = "startup" /\ result[p] = "ScyllaSessionError" /\ pc[p] = "idle"
    /\ op[q] = "startup" /\ result[q] = "Ok" /\ pc[q] = "idle"
    /\ scylla_session # None
    /\ guard = Unlocked

\* C30: a paged execute holds the reader guard only until its cursor
\* exists, and no fetch acquires the session guard: once the cursor is
\* open its task neither holds nor queues for the guard, a fetch step
\* leaves the guard and every session call as they were, a call that is
\* kept waiting waits for a session call still in flight, whatever the
\* cursor does a shutdown or startup under its guard can take its next
\* step, and whatever the Session does a fetch that waits is queued on the
\* cursor's Mutex and a fetch under the Mutex can take its next step.
C30_CursorOutsideSessionGuard ==
  /\ [](CursorIsOpen
          => \A h \in Host : ~Holds(guard, h) /\ h \notin Queued(guard))
  /\ [][fpc' # fpc => UNCHANGED <<guard, pc, mode, scylla_session>>]_vars
  /\ []((guard.queue # <<>> /\ ~Grantable(guard, Head(guard.queue)[2]))
          => \E q \in Procs :
               Holds(guard, q) /\ pc[q] \in {"locked", "driver"})
  /\ [](\A p \in Procs :
          /\ (pc[p] = "locked" /\ op[p] = "shutdown")
               => ENABLED shutdown_take(p)
          /\ (pc[p] = "locked" /\ op[p] = "startup")
               => ENABLED (startup_check(p) \/ startup_build(p))
          /\ fpc[p] = "wait"
               => \E i \in 1..Len(streamer.queue) : streamer.queue[i] = p
          /\ fpc[p] = "locked" => ENABLED anext_poll(p)
          /\ fpc[p] = "next" => ENABLED anext_yield(p))

\* A shutdown holds the exclusive guard while the cursor is open and
\* unexhausted and a fetch is under the cursor's Mutex.
C30_Witness ==
  /\ CursorIsOpen
  /\ position < Len(rows)
  /\ \E p, q \in Procs :
       /\ op[p] = "shutdown" /\ pc[p] = "locked" /\ guard.writers = {p}
       /\ fpc[q] = "next"

====
